---- MODULE Spec2Model ----
(***************************************************************************)
(* Model of yesccx/json-formatter: the path-addressed document operations  *)
(* of src/App.tsx (updateAtPath, addToObjectAtPath, addToArrayAtPath,      *)
(* deleteAtPath, renameKeyAtPath, jsonPointerToPath), the completion       *)
(* context analyzer of src/components/JsonPathTable.tsx, and the App       *)
(* component's input / parsed / undo state machine.                        *)
(*                                                                         *)
(* JavaScript values are records [t, id, p, c]:                            *)
(*   t   the type tag: "undef" "null" "bool" "num" "str" "arr" "obj"       *)
(*   id  the identity of a container (an allocation; 0 for primitives):    *)
(*       two containers are the same reference (===) iff their ids agree   *)
(*   p   the literal text of a primitive, a sequence of characters         *)
(*   c   the entries of a container, records [k, v]; k is <<>> in arrays   *)
(* Strings are sequences of one-character strings.                         *)
(***************************************************************************)
EXTENDS Integers, Sequences, FiniteSets, TLC

\* ------------------------------------------------------------------ bounds

\* Longest path handed to a document operation.
MaxPathLen == 2

\* Largest array index used in a path segment.
MaxIndex == 2

\* Longest generated expression after its leading "$".
MaxExprTail == 3

\* The most user events (typing, buttons, keys, edits) in one run of the
\* application.
MaxSteps == 3

\* the largest budget of nodes given to the sample collector, besides its default
MaxBudget == 5

\* the longest expression typed into the expression input of a column
MaxExprLen == 2

\* the longest expression an accepted suggestion is spliced into
MaxAppliedLen == 3

\* ------------------------------------------------------------ JS values

Undef == [t |-> "undef", id |-> 0, p |-> <<>>, c |-> <<>>]

Null == [t |-> "null", id |-> 0, p |-> <<>>, c |-> <<>>]

Bool(b) == [t |-> "bool", id |-> 0,
            p |-> IF b THEN <<"t", "r", "u", "e">> ELSE <<"f", "a", "l", "s", "e">>,
            c |-> <<>>]

Num(digits) == [t |-> "num", id |-> 0, p |-> digits, c |-> <<>>]

Str(chars) == [t |-> "str", id |-> 0, p |-> chars, c |-> <<>>]

Ent(k, v) == [k |-> k, v |-> v]

Arr(id, items) == [t |-> "arr", id |-> id, p |-> <<>>,
                   c |-> [i \in 1..Len(items) |-> Ent(<<>>, items[i])]]

Obj(id, ents) == [t |-> "obj", id |-> id, p |-> <<>>, c |-> ents]

\* [v, n]: a value together with the next unused identity.
Res(v, n) == [v |-> v, n |-> n]

IsArray(x) == x.t = "arr"

isPlainObject(x) == x.t = "obj"

\* typeof seg === 'number' / 'string' of a JsonPathSegment
Key(s) == [num |-> FALSE, s |-> s, i |-> 0]

Index(i) == [num |-> TRUE, s |-> <<>>, i |-> i]

\* --------------------------------------------------- strings and numbers

Digits == <<"0", "1", "2", "3", "4", "5", "6", "7", "8", "9">>

IsDigit(ch) == \E d \in 1..10 : Digits[d] = ch

DigitVal(ch) == (CHOOSE d \in 1..10 : Digits[d] = ch) - 1

RECURSIVE DigitsToNat(_)
DigitsToNat(s) ==
    IF s = <<>> THEN 0
    ELSE 10 * DigitsToNat(SubSeq(s, 1, Len(s) - 1)) + DigitVal(s[Len(s)])

RECURSIVE NatToDigits(_)
NatToDigits(n) ==
    IF n < 10 THEN <<Digits[n + 1]>>
    ELSE NatToDigits(n \div 10) \o <<Digits[(n % 10) + 1]>>

\* /^(0|[1-9]\d*)$/ : a decimal integer without leading zeros
IsIndexToken(s) ==
    /\ s # <<>>
    /\ \A i \in 1..Len(s) : IsDigit(s[i])
    /\ (Len(s) > 1 => s[1] # "0")

\* --------------------------------------------------------- JS containers

\* current[idx] on an array: undefined past the end
ArrGet(a, i) == IF i < Len(a.c) THEN a.c[i + 1].v ELSE Undef

\* nextArr[idx] = v on a copy of items: a write past the end extends the
\* array, the skipped slots are holes (read as undefined)
ArrSet(ents, i, v) ==
    IF i < Len(ents) THEN [ents EXCEPT ![i + 1] = Ent(<<>>, v)]
    ELSE ents \o [j \in 1..(i - Len(ents)) |-> Ent(<<>>, Undef)] \o <<Ent(<<>>, v)>>

HasOwn(o, k) == \E i \in 1..Len(o.c) : o.c[i].k = k

\* obj[key] on a plain object (own properties only)
ObjGet(o, k) ==
    IF HasOwn(o, k) THEN o.c[CHOOSE i \in 1..Len(o.c) : o.c[i].k = k].v ELSE Undef

\* Number of leading entries whose key is an array index smaller than n.
RECURSIVE IndexKeysBelow(_, _)
IndexKeysBelow(ents, n) ==
    IF ents = <<>> THEN 0
    ELSE IF IsIndexToken(Head(ents).k) /\ DigitsToNat(Head(ents).k) < n
         THEN 1 + IndexKeysBelow(Tail(ents), n)
         ELSE 0

\* obj[key] = v on a plain object, in the property order of the language:
\* an existing key keeps its place; a new integer-like key goes among the
\* integer-like keys in ascending order, before every other key; any other
\* new key goes last.
ObjSet(ents, k, v) ==
    IF \E i \in 1..Len(ents) : ents[i].k = k
    THEN [i \in 1..Len(ents) |-> IF ents[i].k = k THEN Ent(k, v) ELSE ents[i]]
    ELSE IF IsIndexToken(k)
         THEN LET m == IndexKeysBelow(ents, DigitsToNat(k))
              IN SubSeq(ents, 1, m) \o <<Ent(k, v)>> \o SubSeq(ents, m + 1, Len(ents))
         ELSE Append(ents, Ent(k, v))

RemoveAt(s, i) == SubSeq(s, 1, i - 1) \o SubSeq(s, i + 1, Len(s))

\* delete obj[key]
ObjDelete(ents, k) ==
    IF \E i \in 1..Len(ents) : ents[i].k = k
    THEN RemoveAt(ents, CHOOSE i \in 1..Len(ents) : ents[i].k = k)
    ELSE ents

\* ----------------------------------------------------- document operations

\* A deep copy of x: every container in it is a new allocation (k is larger
\* than every identity in use).
RECURSIVE DeepCopy(_, _)
DeepCopy(x, k) ==
    [t |-> x.t, id |-> IF x.id = 0 THEN 0 ELSE x.id + k, p |-> x.p,
     c |-> [i \in 1..Len(x.c) |-> Ent(x.c[i].k, DeepCopy(x.c[i].v, k))]]

\* updateAtPath with the container cloned deeply instead of shallowly.
RECURSIVE updateAtPathDeepCopy(_, _, _, _)
updateAtPathDeepCopy(current, path, nextValue, n) ==
    IF path = <<>> THEN Res(nextValue, n)
    ELSE LET head == Head(path)
             rest == Tail(path)
         IN IF IsArray(current) /\ head.num
            THEN LET r == updateAtPathDeepCopy(ArrGet(current, head.i), rest, nextValue, n + 1)
                 IN Res([t |-> "arr", id |-> n, p |-> <<>>,
                         c |-> ArrSet(DeepCopy(current, 1000).c, head.i, r.v)], r.n)
            ELSE IF isPlainObject(current) /\ ~head.num
            THEN LET r == updateAtPathDeepCopy(ObjGet(current, head.s), rest, nextValue, n + 1)
                 IN Res(Obj(n, ObjSet(DeepCopy(current, 1000).c, head.s, r.v)), r.n)
            ELSE Res(current, n)

\* updateAtPath with the array slot inserted (splice) instead of assigned.
RECURSIVE updateAtPathInsert(_, _, _, _)
updateAtPathInsert(current, path, nextValue, n) ==
    IF path = <<>> THEN Res(nextValue, n)
    ELSE LET head == Head(path)
             rest == Tail(path)
         IN IF IsArray(current) /\ head.num
            THEN LET r == updateAtPathInsert(ArrGet(current, head.i), rest, nextValue, n + 1)
                     at == IF head.i < Len(current.c) THEN head.i ELSE Len(current.c)
                 IN Res([t |-> "arr", id |-> n, p |-> <<>>,
                         c |-> SubSeq(current.c, 1, at) \o <<Ent(<<>>, r.v)>>
                               \o SubSeq(current.c, at + 1, Len(current.c))], r.n)
            ELSE IF isPlainObject(current) /\ ~head.num
            THEN LET r == updateAtPathInsert(ObjGet(current, head.s), rest, nextValue, n + 1)
                 IN Res(Obj(n, ObjSet(current.c, head.s, r.v)), r.n)
            ELSE Res(current, n)

RECURSIVE updateAtPath(_, _, _, _)
updateAtPath(current, path, nextValue, n) ==
    IF path = <<>> THEN Res(nextValue, n)
    ELSE LET head == Head(path)
             rest == Tail(path)
         IN IF IsArray(current) /\ head.num
            THEN LET r == updateAtPath(ArrGet(current, head.i), rest, nextValue, n + 1)
                 IN Res([t |-> "arr", id |-> n, p |-> <<>>,
                         c |-> ArrSet(current.c, head.i, r.v)], r.n)
            ELSE IF isPlainObject(current) /\ ~head.num
            THEN LET r == updateAtPath(ObjGet(current, head.s), rest, nextValue, n + 1)
                 IN Res(Obj(n, ObjSet(current.c, head.s, r.v)), r.n)
            ELSE Res(current, n)

RECURSIVE addToObjectAtPath(_, _, _, _, _)
addToObjectAtPath(current, objectPath, key, value, n) ==
    IF objectPath = <<>>
    THEN IF ~isPlainObject(current) THEN Res(current, n)
         ELSE IF HasOwn(current, key) THEN Res(current, n)
         ELSE Res(Obj(n, ObjSet(current.c, key, value)), n + 1)
    ELSE LET head == Head(objectPath)
             rest == Tail(objectPath)
         IN IF IsArray(current) /\ head.num
            THEN LET r == addToObjectAtPath(ArrGet(current, head.i), rest, key, value, n + 1)
                 IN Res([t |-> "arr", id |-> n, p |-> <<>>,
                         c |-> ArrSet(current.c, head.i, r.v)], r.n)
            ELSE IF isPlainObject(current) /\ ~head.num
            THEN LET r == addToObjectAtPath(ObjGet(current, head.s), rest, key, value, n + 1)
                 IN Res(Obj(n, ObjSet(current.c, head.s, r.v)), r.n)
            ELSE Res(current, n)

RECURSIVE addToArrayAtPath(_, _, _, _)
addToArrayAtPath(current, arrayPath, value, n) ==
    IF arrayPath = <<>>
    THEN IF ~IsArray(current) THEN Res(current, n)
         ELSE Res([t |-> "arr", id |-> n, p |-> <<>>,
                   c |-> Append(current.c, Ent(<<>>, value))], n + 1)
    ELSE LET head == Head(arrayPath)
             rest == Tail(arrayPath)
         IN IF IsArray(current) /\ head.num
            THEN LET r == addToArrayAtPath(ArrGet(current, head.i), rest, value, n + 1)
                 IN Res([t |-> "arr", id |-> n, p |-> <<>>,
                         c |-> ArrSet(current.c, head.i, r.v)], r.n)
            ELSE IF isPlainObject(current) /\ ~head.num
            THEN LET r == addToArrayAtPath(ObjGet(current, head.s), rest, value, n + 1)
                 IN Res(Obj(n, ObjSet(current.c, head.s, r.v)), r.n)
            ELSE Res(current, n)

\* deleteAtPath with the array slot emptied (delete nextArr[head]) instead
\* of spliced out: the list keeps its length.
RECURSIVE deleteAtPathHole(_, _, _)
deleteAtPathHole(current, path, n) ==
    IF path = <<>> THEN Res(current, n)
    ELSE LET head == Head(path)
             rest == Tail(path)
         IN IF rest = <<>>
            THEN IF IsArray(current) /\ head.num
                 THEN IF head.i < 0 \/ head.i >= Len(current.c) THEN Res(current, n)
                      ELSE Res([t |-> "arr", id |-> n, p |-> <<>>,
                                c |-> ArrSet(current.c, head.i, Undef)], n + 1)
                 ELSE IF isPlainObject(current) /\ ~head.num
                 THEN IF ~HasOwn(current, head.s) THEN Res(current, n)
                      ELSE Res(Obj(n, ObjDelete(current.c, head.s)), n + 1)
                 ELSE Res(current, n)
            ELSE IF IsArray(current) /\ head.num
            THEN LET r == deleteAtPathHole(ArrGet(current, head.i), rest, n + 1)
                 IN Res([t |-> "arr", id |-> n, p |-> <<>>,
                         c |-> ArrSet(current.c, head.i, r.v)], r.n)
            ELSE IF isPlainObject(current) /\ ~head.num
            THEN LET r == deleteAtPathHole(ObjGet(current, head.s), rest, n + 1)
                 IN Res(Obj(n, ObjSet(current.c, head.s, r.v)), r.n)
            ELSE Res(current, n)

RECURSIVE deleteAtPath(_, _, _)
deleteAtPath(current, path, n) ==
    IF path = <<>> THEN Res(current, n)
    ELSE LET head == Head(path)
             rest == Tail(path)
         IN IF rest = <<>>
            THEN IF IsArray(current) /\ head.num
                 THEN IF head.i < 0 \/ head.i >= Len(current.c) THEN Res(current, n)
                      ELSE Res([t |-> "arr", id |-> n, p |-> <<>>,
                                c |-> RemoveAt(current.c, head.i + 1)], n + 1)
                 ELSE IF isPlainObject(current) /\ ~head.num
                 THEN IF ~HasOwn(current, head.s) THEN Res(current, n)
                      ELSE Res(Obj(n, ObjDelete(current.c, head.s)), n + 1)
                 ELSE Res(current, n)
            ELSE IF IsArray(current) /\ head.num
            THEN LET r == deleteAtPath(ArrGet(current, head.i), rest, n + 1)
                 IN Res([t |-> "arr", id |-> n, p |-> <<>>,
                         c |-> ArrSet(current.c, head.i, r.v)], r.n)
            ELSE IF isPlainObject(current) /\ ~head.num
            THEN LET r == deleteAtPath(ObjGet(current, head.s), rest, n + 1)
                 IN Res(Obj(n, ObjSet(current.c, head.s, r.v)), r.n)
            ELSE Res(current, n)

\* next[k] = v for every entry of obj, with newKey in place of oldKey
RECURSIVE renameEntries(_, _, _, _)
renameEntries(ents, oldKey, newKey, acc) ==
    IF ents = <<>> THEN acc
    ELSE LET e == Head(ents)
         IN renameEntries(Tail(ents), oldKey, newKey,
                          ObjSet(acc, IF e.k = oldKey THEN newKey ELSE e.k, e.v))

\* parentPath.reduce(...) of renameKeyAtPath: a segment that does not fit
\* the container is skipped (the accumulator is kept)
RECURSIVE renameTarget(_, _)
renameTarget(acc, parentPath) ==
    IF parentPath = <<>> THEN acc
    ELSE LET seg == Head(parentPath)
             nxt == IF acc.t \in {"null", "undef"} THEN acc
                    ELSE IF seg.num /\ IsArray(acc) THEN ArrGet(acc, seg.i)
                    ELSE IF ~seg.num /\ isPlainObject(acc) THEN ObjGet(acc, seg.s)
                    ELSE acc
         IN renameTarget(nxt, Tail(parentPath))

RECURSIVE patchObject(_, _, _, _, _, _)
patchObject(node, pathToNode, obj, oldKey, newKey, n) ==
    IF pathToNode = <<>>
    THEN Res(Obj(n, renameEntries(obj.c, oldKey, newKey, <<>>)), n + 1)
    ELSE LET head == Head(pathToNode)
             rest == Tail(pathToNode)
         IN IF IsArray(node) /\ head.num
            THEN LET r == patchObject(ArrGet(node, head.i), rest, obj, oldKey, newKey, n + 1)
                 IN Res([t |-> "arr", id |-> n, p |-> <<>>,
                         c |-> ArrSet(node.c, head.i, r.v)], r.n)
            ELSE IF isPlainObject(node) /\ ~head.num
            THEN LET r == patchObject(ObjGet(node, head.s), rest, obj, oldKey, newKey, n + 1)
                 IN Res(Obj(n, ObjSet(node.c, head.s, r.v)), r.n)
            ELSE Res(node, n)

renameKeyAtPath(current, parentPath, oldKey, newKey, n) ==
    LET target == renameTarget(current, parentPath)
    IN IF target.t # "obj" THEN Res(current, n)
       ELSE IF ~HasOwn(target, oldKey) THEN Res(current, n)
       ELSE IF HasOwn(target, newKey) THEN Res(current, n)
       ELSE patchObject(current, parentPath, target, oldKey, newKey, n)

\* read(value, path) of the specification: a Key against a non-mapping, an
\* Index against a non-list, a missing key or an index past the end is
\* undefined
RECURSIVE read(_, _)
read(value, path) ==
    IF path = <<>> THEN value
    ELSE LET head == Head(path)
         IN IF IsArray(value) /\ head.num THEN read(ArrGet(value, head.i), Tail(path))
            ELSE IF isPlainObject(value) /\ ~head.num
            THEN read(ObjGet(value, head.s), Tail(path))
            ELSE Undef

\* The value without its identities: structural (deep) equality is
\* Strip(a) = Strip(b), reference equality is a = b.
RECURSIVE Strip(_)
Strip(x) ==
    [t |-> x.t, id |-> 0, p |-> x.p,
     c |-> [i \in 1..Len(x.c) |-> Ent(x.c[i].k, Strip(x.c[i].v))]]

RECURSIVE MaxId(_)
MaxId(x) ==
    LET sub == {MaxId(x.c[i].v) : i \in 1..Len(x.c)} \cup {x.id}
    IN CHOOSE m \in sub : \A k \in sub : k <= m

\* First identity not used by the document.
FreshId(x) == MaxId(x) + 1

\* ------------------------------------------------------------ JSON pointers

\* s.split('/')
RECURSIVE SplitSlash(_)
SplitSlash(s) ==
    IF \E i \in 1..Len(s) : s[i] = "/"
    THEN LET i == CHOOSE i \in 1..Len(s) : s[i] = "/" /\ \A j \in 1..(i - 1) : s[j] # "/"
         IN <<SubSeq(s, 1, i - 1)>> \o SplitSlash(SubSeq(s, i + 1, Len(s)))
    ELSE <<s>>

\* s.replace(/ab/g, r) for the two-character pattern ab
RECURSIVE ReplacePair(_, _, _, _)
ReplacePair(s, a, b, r) ==
    IF Len(s) < 2 THEN s
    ELSE IF s[1] = a /\ s[2] = b THEN <<r>> \o ReplacePair(SubSeq(s, 3, Len(s)), a, b, r)
    ELSE <<s[1]>> \o ReplacePair(Tail(s), a, b, r)

\* decodeJsonPointerToken with the two replacements in the other order.
decodeJsonPointerTokenSwapped(token) ==
    ReplacePair(ReplacePair(token, "~", "0", "~"), "~", "1", "/")

decodeJsonPointerToken(token) ==
    ReplacePair(ReplacePair(token, "~", "1", "/"), "~", "0", "~")

NoPath == [ok |-> FALSE, path |-> <<>>]

\* The loop of jsonPointerToPath without the Array.isArray(current) test: a
\* token that looks like an index is an index against any container.
RECURSIVE pointerWalkAnyIndex(_, _, _)
pointerWalkAnyIndex(parts, current, path) ==
    IF parts = <<>> THEN path
    ELSE LET part == Head(parts)
             isIndex == IsIndexToken(part)
         IN IF isIndex
            THEN LET idx == DigitsToNat(part)
                 IN pointerWalkAnyIndex(Tail(parts),
                                        IF IsArray(current) THEN ArrGet(current, idx)
                                        ELSE Undef,
                                        Append(path, Index(idx)))
            ELSE pointerWalkAnyIndex(Tail(parts),
                                     IF isPlainObject(current) THEN ObjGet(current, part)
                                     ELSE Undef,
                                     Append(path, Key(part)))

\* the for loop of jsonPointerToPath over the decoded parts
RECURSIVE pointerWalk(_, _, _)
pointerWalk(parts, current, path) ==
    IF parts = <<>> THEN path
    ELSE LET part == Head(parts)
             isIndex == IsIndexToken(part)
         IN IF IsArray(current) /\ isIndex
            THEN LET idx == DigitsToNat(part)
                 IN pointerWalk(Tail(parts), ArrGet(current, idx), Append(path, Index(idx)))
            ELSE pointerWalk(Tail(parts),
                             IF isPlainObject(current) THEN ObjGet(current, part) ELSE Undef,
                             Append(path, Key(part)))

\* [ok, path]: ok is FALSE for the null result
jsonPointerToPath(pointer, root) ==
    IF pointer = <<>> THEN [ok |-> TRUE, path |-> <<>>]
    ELSE IF pointer[1] # "/" THEN NoPath
    ELSE LET split == SplitSlash(pointer)
             parts == [i \in 1..(Len(split) - 1) |-> decodeJsonPointerToken(split[i + 1])]
         IN [ok |-> TRUE, path |-> pointerWalk(parts, root, <<>>)]

\* The pointer encoding of the specification: '~' becomes '~0', '/' becomes
\* '~1', an index is written in decimal, every segment is preceded by '/'.
RECURSIVE encodeToken(_)
encodeToken(s) ==
    IF s = <<>> THEN <<>>
    ELSE (IF Head(s) = "~" THEN <<"~", "0">>
          ELSE IF Head(s) = "/" THEN <<"~", "1">>
          ELSE <<Head(s)>>) \o encodeToken(Tail(s))

RECURSIVE encodePointer(_)
encodePointer(path) ==
    IF path = <<>> THEN <<>>
    ELSE <<"/">> \o (IF Head(path).num THEN NatToDigits(Head(path).i)
                     ELSE encodeToken(Head(path).s))
         \o encodePointer(Tail(path))

\* ------------------------------------------------------ completion context

IsQuote(ch) == ch = "\"" \/ ch = "'"

\* The backward loop of findLastTopLevelDot from position i (1-based) down;
\* quote is "" for null. The result is the 0-based index of the dot, or -1.
RECURSIVE dotScan(_, _, _, _)
dotScan(prefix, i, bracketDepth, quote) ==
    IF i < 1 THEN -1
    ELSE LET ch == prefix[i]
             prev == IF i > 1 THEN prefix[i - 1] ELSE ""
         IN IF quote # ""
            THEN dotScan(prefix, i - 1, bracketDepth,
                         IF ch = quote /\ prev # "\\" THEN "" ELSE quote)
            ELSE IF IsQuote(ch)
            THEN dotScan(prefix, i - 1, bracketDepth, IF prev # "\\" THEN ch ELSE "")
            ELSE IF ch = "]" THEN dotScan(prefix, i - 1, bracketDepth + 1, "")
            ELSE IF ch = "["
            THEN dotScan(prefix, i - 1, IF bracketDepth > 1 THEN bracketDepth - 1 ELSE 0, "")
            ELSE IF bracketDepth > 0 THEN dotScan(prefix, i - 1, bracketDepth, "")
            ELSE IF ch = "." THEN i - 1
            ELSE dotScan(prefix, i - 1, bracketDepth, "")

findLastTopLevelDot(prefix) == dotScan(prefix, Len(prefix), 0, "")

\* The forward loop of getCompletionContext from position i (1-based);
\* the result is the 0-based index of the last '[' not closed, or -1.
RECURSIVE bracketScan(_, _, _, _)
bracketScan(prefix, i, lastBracket, inQuote) ==
    IF i > Len(prefix) THEN lastBracket
    ELSE LET ch == prefix[i]
             prev == IF i > 1 THEN prefix[i - 1] ELSE ""
         IN IF inQuote # ""
            THEN bracketScan(prefix, i + 1, lastBracket,
                             IF ch = inQuote /\ prev # "\\" THEN "" ELSE inQuote)
            ELSE IF IsQuote(ch) /\ prev # "\\"
            THEN bracketScan(prefix, i + 1, lastBracket, ch)
            ELSE IF ch = "[" THEN bracketScan(prefix, i + 1, i - 1, "")
            ELSE IF ch = "]" THEN bracketScan(prefix, i + 1, -1, "")
            ELSE bracketScan(prefix, i + 1, lastBracket, "")

IsSpace(ch) == ch = " " \/ ch = "\n"

RECURSIVE trimStart(_)
trimStart(s) == IF s # <<>> /\ IsSpace(Head(s)) THEN trimStart(Tail(s)) ELSE s

RECURSIVE trimEnd(_)
trimEnd(s) ==
    IF s # <<>> /\ IsSpace(s[Len(s)]) THEN trimEnd(SubSeq(s, 1, Len(s) - 1)) ELSE s

trim(s) == trimEnd(trimStart(s))

startsWith(s, pre) == Len(s) >= Len(pre) /\ SubSeq(s, 1, Len(pre)) = pre

Context(kind, base, partial, start, end) ==
    [kind |-> kind, base |-> base, partial |-> partial, start |-> start, end |-> end]

\* A variant that does not know the recursive-descent operator: a dot that
\* follows a dot is classified like any other dot.
getCompletionContextSingleDot(expression, cursorPos) ==
    LET len == Len(expression)
        safeCursor == IF cursorPos < 0 THEN 0 ELSE IF cursorPos > len THEN len ELSE cursorPos
        prefix == SubSeq(expression, 1, safeCursor)
        lastDot == findLastTopLevelDot(prefix)
        lastBracket == bracketScan(prefix, 1, -1, "")
        after == SubSeq(prefix, lastBracket + 2, Len(prefix))
        afterTrim == trimStart(after)
    IN IF ~startsWith(prefix, <<"$">>) THEN Context("root", <<>>, <<>>, 0, safeCursor)
       ELSE IF lastDot >= 1
       THEN Context("dot", SubSeq(prefix, 1, lastDot),
                    SubSeq(prefix, lastDot + 2, Len(prefix)), lastDot, safeCursor)
       ELSE IF lastBracket >= 0
       THEN IF startsWith(afterTrim, <<"?", "(">>) \/ startsWith(afterTrim, <<"(">>)
            THEN Context("none", <<>>, <<>>, safeCursor, safeCursor)
            ELSE IF startsWith(after, <<"'">>) \/ startsWith(after, <<"\"">>)
            THEN Context("bracket-string", SubSeq(prefix, 1, lastBracket),
                         SubSeq(after, 2, Len(after)), lastBracket, safeCursor)
            ELSE Context("bracket-index", SubSeq(prefix, 1, lastBracket), after,
                         lastBracket, safeCursor)
       ELSE Context("root", <<>>, <<>>, 0, safeCursor)

getCompletionContext(expression, cursorPos) ==
    LET len == Len(expression)
        safeCursor == IF cursorPos < 0 THEN 0 ELSE IF cursorPos > len THEN len ELSE cursorPos
        prefix == SubSeq(expression, 1, safeCursor)
        lastDot == findLastTopLevelDot(prefix)
        lastBracket == bracketScan(prefix, 1, -1, "")
        after == SubSeq(prefix, lastBracket + 2, Len(prefix))
        afterTrim == trimStart(after)
    IN IF ~startsWith(prefix, <<"$">>) THEN Context("root", <<>>, <<>>, 0, safeCursor)
       ELSE IF lastDot >= 1
       THEN IF prefix[lastDot] = "."
            THEN Context("descendant", SubSeq(prefix, 1, lastDot + 1),
                         SubSeq(prefix, lastDot + 2, Len(prefix)), lastDot + 1, safeCursor)
            ELSE Context("dot", SubSeq(prefix, 1, lastDot),
                         SubSeq(prefix, lastDot + 2, Len(prefix)), lastDot, safeCursor)
       ELSE IF lastBracket >= 0
       THEN IF startsWith(afterTrim, <<"?", "(">>) \/ startsWith(afterTrim, <<"(">>)
            THEN Context("none", <<>>, <<>>, safeCursor, safeCursor)
            ELSE IF startsWith(after, <<"'">>) \/ startsWith(after, <<"\"">>)
            THEN Context("bracket-string", SubSeq(prefix, 1, lastBracket),
                         SubSeq(after, 2, Len(after)), lastBracket, safeCursor)
            ELSE Context("bracket-index", SubSeq(prefix, 1, lastBracket), after,
                         lastBracket, safeCursor)
       ELSE Context("root", <<>>, <<>>, 0, safeCursor)

\* --------------------------------------------------------------- JSON text
\* Texts are sequences of characters. The grammar covers what the model's
\* texts use: objects, arrays, strings with the escapes \" \\ \/ \n,
\* non-negative integers without fraction or exponent, true, false, null,
\* and the whitespace characters space and newline.

RECURSIVE EscapeJson(_)
EscapeJson(s) ==
    IF s = <<>> THEN <<>>
    ELSE (IF Head(s) = "\"" THEN <<"\\", "\"">>
          ELSE IF Head(s) = "\\" THEN <<"\\", "\\">>
          ELSE IF Head(s) = "\n" THEN <<"\\", "n">>
          ELSE <<Head(s)>>) \o EscapeJson(Tail(s))

Quote(s) == <<"\"">> \o EscapeJson(s) \o <<"\"">>

Spaces(k) == [i \in 1..k |-> " "]

\* JSON.stringify(x, null, 2) below the root, at indentation ind: undefined
\* (and a hole) in an array is written null, an undefined member is left out
RECURSIVE stringifyValue(_, _)
RECURSIVE stringifyItems(_, _)
RECURSIVE stringifyMembers(_, _)
stringifyValue(x, ind) ==
    IF x.t \in {"null", "undef"} THEN <<"n", "u", "l", "l">>
    ELSE IF x.t \in {"bool", "num"} THEN x.p
    ELSE IF x.t = "str" THEN Quote(x.p)
    ELSE IF x.t = "arr"
    THEN IF x.c = <<>> THEN <<"[", "]">>
         ELSE <<"[", "\n">> \o stringifyItems(x.c, ind + 2) \o <<"\n">> \o Spaces(ind) \o <<"]">>
    ELSE LET kept == SelectSeq(x.c, LAMBDA e : e.v.t # "undef")
         IN IF kept = <<>> THEN <<"{", "}">>
            ELSE <<"{", "\n">> \o stringifyMembers(kept, ind + 2) \o <<"\n">>
                 \o Spaces(ind) \o <<"}">>

stringifyItems(ents, ind) ==
    Spaces(ind) \o stringifyValue(Head(ents).v, ind)
    \o (IF Len(ents) = 1 THEN <<>> ELSE <<",", "\n">> \o stringifyItems(Tail(ents), ind))

stringifyMembers(ents, ind) ==
    Spaces(ind) \o Quote(Head(ents).k) \o <<":", " ">> \o stringifyValue(Head(ents).v, ind)
    \o (IF Len(ents) = 1 THEN <<>> ELSE <<",", "\n">> \o stringifyMembers(Tail(ents), ind))

\* JSON.stringify(updated, null, 2)
stringify(x) == stringifyValue(x, 0)

ParseFail == [ok |-> FALSE, v |-> Undef, i |-> 0, n |-> 0]

\* a parsed value, the position after it and the next unused identity
Parsed(v, i, n) == [ok |-> TRUE, v |-> v, i |-> i, n |-> n]

RECURSIVE skipWs(_, _)
skipWs(t, i) == IF i <= Len(t) /\ IsSpace(t[i]) THEN skipWs(t, i + 1) ELSE i

CharAt(t, i) == IF i >= 1 /\ i <= Len(t) THEN t[i] ELSE ""

\* the characters of a string literal from position i, after its opening quote
RECURSIVE parseStringBody(_, _, _)
parseStringBody(t, i, acc) ==
    IF i > Len(t) THEN ParseFail
    ELSE IF t[i] = "\"" THEN Parsed(Str(acc), i + 1, 0)
    ELSE IF t[i] = "\n" THEN ParseFail
    ELSE IF t[i] = "\\"
    THEN IF CharAt(t, i + 1) \in {"\"", "\\", "/"}
         THEN parseStringBody(t, i + 2, Append(acc, t[i + 1]))
         ELSE IF CharAt(t, i + 1) = "n" THEN parseStringBody(t, i + 2, Append(acc, "\n"))
         ELSE ParseFail
    ELSE parseStringBody(t, i + 1, Append(acc, t[i]))

RECURSIVE digitsEnd(_, _)
digitsEnd(t, i) == IF i <= Len(t) /\ IsDigit(t[i]) THEN digitsEnd(t, i + 1) ELSE i

RECURSIVE parseValue(_, _, _)
RECURSIVE parseElements(_, _, _, _, _, _)
RECURSIVE parseMembers(_, _, _, _, _, _)
parseValue(t, from, n) ==
    LET i == skipWs(t, from)
        ch == CharAt(t, i)
    IN IF ch = "{" THEN parseMembers(t, skipWs(t, i + 1), n + 1, n, <<>>, TRUE)
       ELSE IF ch = "[" THEN parseElements(t, skipWs(t, i + 1), n + 1, n, <<>>, TRUE)
       ELSE IF ch = "\""
       THEN LET r == parseStringBody(t, i + 1, <<>>)
            IN IF r.ok THEN Parsed(r.v, r.i, n) ELSE ParseFail
       ELSE IF IsDigit(ch)
       THEN LET e == digitsEnd(t, i)
                d == SubSeq(t, i, e - 1)
            IN IF IsIndexToken(d) THEN Parsed(Num(d), e, n) ELSE ParseFail
       ELSE IF startsWith(SubSeq(t, i, Len(t)), <<"t", "r", "u", "e">>)
       THEN Parsed(Bool(TRUE), i + 4, n)
       ELSE IF startsWith(SubSeq(t, i, Len(t)), <<"f", "a", "l", "s", "e">>)
       THEN Parsed(Bool(FALSE), i + 5, n)
       ELSE IF startsWith(SubSeq(t, i, Len(t)), <<"n", "u", "l", "l">>)
       THEN Parsed(Null, i + 4, n)
       ELSE ParseFail

\* the elements of an array from position i (whitespace skipped)
parseElements(t, i, n, id, acc, first) ==
    IF first /\ CharAt(t, i) = "]" THEN Parsed(Arr(id, acc), i + 1, n)
    ELSE LET r == parseValue(t, i, n)
             j == skipWs(t, r.i)
         IN IF ~r.ok THEN ParseFail
            ELSE IF CharAt(t, j) = ","
            THEN parseElements(t, skipWs(t, j + 1), r.n, id, Append(acc, r.v), FALSE)
            ELSE IF CharAt(t, j) = "]" THEN Parsed(Arr(id, Append(acc, r.v)), j + 1, r.n)
            ELSE ParseFail

\* the members of an object from position i (whitespace skipped); a repeated
\* key keeps its first place and takes the last value
parseMembers(t, i, n, id, ents, first) ==
    IF first /\ CharAt(t, i) = "}" THEN Parsed(Obj(id, ents), i + 1, n)
    ELSE IF CharAt(t, i) # "\"" THEN ParseFail
    ELSE LET k == parseStringBody(t, i + 1, <<>>)
             colon == skipWs(t, k.i)
             r == parseValue(t, colon + 1, n)
             j == skipWs(t, r.i)
         IN IF ~k.ok \/ CharAt(t, colon) # ":" THEN ParseFail
            ELSE IF ~r.ok THEN ParseFail
            ELSE IF CharAt(t, j) = ","
            THEN parseMembers(t, skipWs(t, j + 1), r.n, id, ObjSet(ents, k.v.p, r.v), FALSE)
            ELSE IF CharAt(t, j) = "}"
            THEN Parsed(Obj(id, ObjSet(ents, k.v.p, r.v)), j + 1, r.n)
            ELSE ParseFail

\* JSON.parse(t): [ok, v, n]; ok is FALSE when it throws
JSONParse(t, n) ==
    LET r == parseValue(t, 1, n)
    IN IF r.ok /\ skipWs(t, r.i) > Len(t) THEN r ELSE ParseFail

looksLikeNestedJsonString(value) ==
    LET trimmed == trim(value)
    IN trimmed # <<>> /\ trimmed[1] \in {"{", "[", "\""}

\* [ok, v, n]: ok is FALSE for the undefined result
tryParseJson(value, n) ==
    IF ~looksLikeNestedJsonString(value) THEN ParseFail ELSE JSONParse(value, n)

RECURSIVE decodeValue(_, _)
RECURSIVE decodeEntries(_, _, _, _)
\* a variant that decodes one level of a string only
decodeValueOnce(value, n) ==
    IF value.t = "str"
    THEN LET parsedValue == tryParseJson(value.p, n)
         IN IF ~parsedValue.ok THEN Res(value, n)
            ELSE Res(parsedValue.v, parsedValue.n)
    ELSE IF IsArray(value) \/ isPlainObject(value)
    THEN LET r == decodeEntries(value.c, n + 1, <<>>, isPlainObject(value))
         IN Res([t |-> value.t, id |-> n, p |-> <<>>, c |-> r.v], r.n)
    ELSE Res(value, n)

decodeValue(value, n) ==
    IF value.t = "str"
    THEN LET parsedValue == tryParseJson(value.p, n)
         IN IF ~parsedValue.ok THEN Res(value, n)
            ELSE decodeValue(parsedValue.v, parsedValue.n)
    ELSE IF IsArray(value) \/ isPlainObject(value)
    THEN LET r == decodeEntries(value.c, n + 1, <<>>, isPlainObject(value))
         IN Res([t |-> value.t, id |-> n, p |-> <<>>, c |-> r.v], r.n)
    ELSE Res(value, n)

\* value.map(decodeValue) / result[key] = decodeValue(v) over the entries
decodeEntries(ents, n, acc, keyed) ==
    IF ents = <<>> THEN Res(acc, n)
    ELSE LET r == decodeValue(Head(ents).v, n)
         IN decodeEntries(Tail(ents), r.n,
                          IF keyed THEN ObjSet(acc, Head(ents).k, r.v)
                          ELSE Append(acc, Ent(<<>>, r.v)),
                          keyed)

\* [ok, v, n]: ok is FALSE when NestedJsonError is thrown
decodeNestedJson(text, n) ==
    LET root == JSONParse(text, n)
    IN IF ~root.ok THEN ParseFail
       ELSE LET r == decodeValue(root.v, root.n)
            IN Parsed(r.v, 0, r.n)

\* The value with its containers numbered 1, 2, ... in document order: the
\* identities of a value that nothing else refers to are immaterial.
RECURSIVE Renumber(_, _)
RECURSIVE renumberEntries(_, _, _)
Renumber(x, n) ==
    IF x.id = 0 THEN Res(x, n)
    ELSE LET r == renumberEntries(x.c, n + 1, <<>>)
         IN Res([t |-> x.t, id |-> n, p |-> <<>>, c |-> r.v], r.n)

renumberEntries(ents, n, acc) ==
    IF ents = <<>> THEN Res(acc, n)
    ELSE LET r == Renumber(Head(ents).v, n)
         IN renumberEntries(Tail(ents), r.n, Append(acc, Ent(Head(ents).k, r.v)))

Canonical(x) == Renumber(x, 1).v

\* ------------------------------------------------------------------ samples

\* JSON.stringify(value) without indentation (a member holding undefined is
\* left out, an array slot holding undefined is written null)
RECURSIVE compactValue(_), compactItems(_), compactMembers(_)
compactValue(x) ==
    IF x.t \in {"null", "undef"} THEN <<"n", "u", "l", "l">>
    ELSE IF x.t \in {"bool", "num"} THEN x.p
    ELSE IF x.t = "str" THEN Quote(x.p)
    ELSE IF x.t = "arr"
    THEN <<"[">> \o (IF x.c = <<>> THEN <<>> ELSE compactItems(x.c)) \o <<"]">>
    ELSE LET kept == SelectSeq(x.c, LAMBDA e : e.v.t # "undef")
         IN <<"{">> \o (IF kept = <<>> THEN <<>> ELSE compactMembers(kept)) \o <<"}">>

compactItems(ents) ==
    compactValue(Head(ents).v)
    \o (IF Len(ents) = 1 THEN <<>> ELSE <<",">> \o compactItems(Tail(ents)))

compactMembers(ents) ==
    Quote(Head(ents).k) \o <<":">> \o compactValue(Head(ents).v)
    \o (IF Len(ents) = 1 THEN <<>> ELSE <<",">> \o compactMembers(Tail(ents)))

stringifyCell(value) ==
    IF value.t = "undef" THEN <<>>
    ELSE IF value.t = "null" THEN <<"n", "u", "l", "l">>
    ELSE IF value.t \in {"str", "num", "bool"} THEN value.p
    ELSE compactValue(value)

\* the length of the display text of a sample
SampleLen == 56

\* the element "..." stands for the one character of the ellipsis
preview(text, maxLen) ==
    IF Len(text) <= maxLen THEN [display |-> text, full |-> text]
    ELSE [display |-> Append(SubSeq(text, 1, maxLen), "..."), full |-> text]

toSample(value) == preview(stringifyCell(value), SampleLen)

\* The characters the keys of the sample documents are written in, in the
\* order localeCompare gives them: digits before lower-case letters.
Collation == <<"0", "1", "2", "3", "4", "5", "6", "7", "8", "9",
               "a", "b", "c", "d", "e", "f", "g", "h", "i", "j", "k", "l", "m",
               "n", "o", "p", "q", "r", "s", "t", "u", "v", "w", "x", "y", "z">>

\* the place of each of those characters
CollationRank ==
    [ch \in {Collation[i] : i \in 1..Len(Collation)} |->
        CHOOSE i \in 1..Len(Collation) : Collation[i] = ch]

CharRank(ch) == IF ch \in DOMAIN CollationRank THEN CollationRank[ch] ELSE 0

\* a.localeCompare(b) < 0, = 0, > 0 as -1, 0, 1
RECURSIVE localeCompare(_, _)
localeCompare(a, b) ==
    IF a = <<>> THEN (IF b = <<>> THEN 0 ELSE -1)
    ELSE IF b = <<>> THEN 1
    ELSE IF CharRank(Head(a)) < CharRank(Head(b)) THEN -1
    ELSE IF CharRank(Head(a)) > CharRank(Head(b)) THEN 1
    ELSE localeCompare(Tail(a), Tail(b))

\* the place of key in a sorted list: after the keys that do not compare
\* greater than it, so that equal keys keep their order
RECURSIVE insertKey(_, _)
insertKey(sorted, key) ==
    IF sorted = <<>> THEN <<key>>
    ELSE IF localeCompare(key, Head(sorted)) < 0 THEN <<key>> \o sorted
    ELSE <<Head(sorted)>> \o insertKey(Tail(sorted), key)

\* keys.sort((a, b) => a.localeCompare(b)): the stable sort. The sorted
\* front of the list is computed once (s ranges over a set of one element).
RECURSIVE sortKeys(_)
sortKeys(keys) ==
    IF keys = <<>> THEN <<>>
    ELSE CHOOSE sorted \in {insertKey(s, keys[Len(keys)]) :
                               s \in {sortKeys(SubSeq(keys, 1, Len(keys) - 1))}} : TRUE

\* Object.keys(value).sort(...) of a plain object, nothing otherwise
getStringKeys(value) ==
    IF ~isPlainObject(value) THEN <<>>
    ELSE sortKeys([i \in 1..Len(value.c) |-> value.c[i].k])

\* the sample of a key that has none (a Set holds keys only)
NoSample == [display |-> <<>>, full |-> <<>>]

\* out.has(k): the keys gathered so far hold k
HasKey(acc, k) == \E i \in 1..Len(acc) : acc[i].k = k

\* the sample gathered for k
GetSample(acc, k) ==
    IF HasKey(acc, k)
    THEN acc[CHOOSE i \in 1..Len(acc) : acc[i].k = k].sample
    ELSE NoSample

\* for (const [k, v] of Object.entries(cur)): out.add(k), or
\* if (!out.has(k)) out.set(k, toSample(v))
RECURSIVE gatherEntries(_, _, _)
gatherEntries(acc, ents, withSample) ==
    IF ents = <<>> THEN acc
    ELSE LET e == Head(ents)
             item == [k |-> e.k,
                      sample |-> IF withSample THEN toSample(e.v) ELSE NoSample]
         IN gatherEntries(IF HasKey(acc, e.k) THEN acc ELSE Append(acc, item),
                          Tail(ents), withSample)

\* -------------------------------------------------------------- suggestions

\* maxNodes = 1200
DefaultMaxNodes == 1200

\* the whole traversal of collectDescendantKeySamples, as computeSuggestions
\* calls it
RECURSIVE collectLoop(_, _, _, _)
collectLoop(todo, count, acc, budget) ==
    IF todo = <<>> \/ count >= budget THEN acc
    ELSE LET cur == Head(todo)
         IN collectLoop(Tail(todo) \o (IF IsArray(cur) \/ isPlainObject(cur)
                                       THEN [i \in 1..Len(cur.c) |-> cur.c[i].v]
                                       ELSE <<>>),
                        count + 1,
                        IF isPlainObject(cur) THEN gatherEntries(acc, cur.c, TRUE) ELSE acc,
                        budget)

collectDescendantKeySamples(root, budget) == collectLoop(<<root>>, 0, <<>>, budget)

\* /^[A-Za-z_$][A-Za-z0-9_$]*$/.test(key), on the characters of the model
IsIdentStart(ch) == ch \in {"_", "$", "A", "B", "K"} \/ (CharRank(ch) > 10)

isIdentifierKey(key) ==
    /\ key # <<>>
    /\ IsIdentStart(key[1])
    /\ \A i \in 1..Len(key) : IsIdentStart(key[i]) \/ IsDigit(key[i])

\* raw.replace(/\\/g, '\\\\').replace(/'/g, "\\'")
RECURSIVE escapeSingleQuotedString(_)
escapeSingleQuotedString(raw) ==
    IF raw = <<>> THEN <<>>
    ELSE (IF Head(raw) \in {"\\", "'"} THEN <<"\\", Head(raw)>> ELSE <<Head(raw)>>)
         \o escapeSingleQuotedString(Tail(raw))

\* array.slice(0, n)
Take(s, n) == SubSeq(s, 1, IF Len(s) < n THEN Len(s) ELSE n)

\* String.prototype.toLowerCase on the characters of the model
toLowerCase(s) ==
    [i \in 1..Len(s) |-> CASE s[i] = "A" -> "a"
                           [] s[i] = "B" -> "b"
                           [] s[i] = "K" -> "k"
                           [] OTHER -> s[i]]

\* keys.filter((k) => k.toLowerCase().startsWith(partial.toLowerCase()))
filterByPartial(keys, partial) ==
    IF partial = <<>> THEN keys
    ELSE SelectSeq(keys, LAMBDA k : startsWith(toLowerCase(k), toLowerCase(partial)))

\* a suggestion; a sample that is undefined is the empty text
Suggestion(label, value, sample) ==
    [label |-> label, value |-> value,
     sample |-> sample.display, sampleTitle |-> sample.full]

Replace(start, end) == [start |-> start, end |-> end]

\* what the path evaluator answered: its matches, or that it threw
Rejected == [ok |-> FALSE, matches |-> <<>>]

Matched(nodes) == [ok |-> TRUE, matches |-> nodes]

\* the segments of a path between its dots
RECURSIVE splitDots(_, _)
splitDots(s, cur) ==
    IF s = <<>> THEN <<cur>>
    ELSE IF Head(s) = "." THEN <<cur>> \o splitDots(Tail(s), <<>>)
    ELSE splitDots(Tail(s), Append(cur, Head(s)))

\* The answers the path evaluator may give for a path. A path made of the
\* root marker and dotted identifier keys is matched against the document;
\* for any other text the evaluator either throws or matches nothing.
EvalOutcomes(path, json) ==
    LET parts == splitDots(path, <<>>)
        keys == Tail(parts)
        node == read(json, [i \in 1..Len(keys) |-> Key(keys[i])])
    IN IF path # <<>> /\ parts[1] = <<"$">> /\ \A i \in 1..Len(keys) : isIdentifierKey(keys[i])
       THEN {Matched(IF node = Undef THEN <<>> ELSE <<node>>)}
       ELSE {Rejected, Matched(<<>>)}

makeRoot(expression, value) ==
    LET rootKeys == Take(getStringKeys(value), 80)
        seg(k) == IF isIdentifierKey(k) THEN <<"$", ".">> \o k
                  ELSE <<"$", "[", "'">> \o escapeSingleQuotedString(k) \o <<"'", "]">>
    IN [items |-> << Suggestion(<<"$">>, <<"$">>, NoSample),
                     Suggestion(<<"$", ".", "*">>, <<"$", ".", "*">>, NoSample),
                     Suggestion(<<"$", ".", ".", "*">>, <<"$", ".", ".", "*">>, NoSample),
                     Suggestion(<<"$", "[", "*", "]">>, <<"$", "[", "*", "]">>, NoSample) >>
                  \o [i \in 1..Len(rootKeys) |->
                        Suggestion(seg(rootKeys[i]), seg(rootKeys[i]),
                                   toSample(ObjGet(value, rootKeys[i])))],
        replace |-> Replace(0, Len(expression))]

\* the keys of the matches that are plain objects, each once, sorted
collectObjectKeysFromMatches(matches) ==
    LET RECURSIVE gather(_, _)
        gather(acc, ms) ==
            IF ms = <<>> THEN acc
            ELSE gather(IF isPlainObject(Head(ms))
                        THEN gatherEntries(acc, Head(ms).c, TRUE) ELSE acc,
                        Tail(ms))
    IN gather(<<>>, matches)

\* the longest array among the matches
collectArraySampleLength(matches) ==
    LET lens == {Len(matches[i].c) : i \in {j \in 1..Len(matches) : IsArray(matches[j])}}
    IN IF lens = {} THEN 0 ELSE CHOOSE n \in lens : \A m \in lens : m <= n

\* the suggestions for a match that is an array
arraySuggestions(ctx, matches) ==
    LET arrayLen == collectArraySampleLength(matches)
        partial == IF ctx.kind = "bracket-index" THEN trim(ctx.partial) ELSE <<>>
        options == <<<<"[", "*", "]">>>>
                   \o (IF arrayLen > 0 THEN <<<<"[", "0", "]">>>> ELSE <<>>)
                   \o (IF arrayLen > 1 THEN <<<<"[", "1", "]">>>> ELSE <<>>)
                   \o (IF arrayLen > 2 THEN <<<<"[", "2", "]">>>> ELSE <<>>)
        arrays == SelectSeq(matches, IsArray)
        lenSample == [display |-> <<"l", "e", "n", "=">> \o NatToDigits(arrayLen),
                      full |-> <<"l", "e", "n", "=">> \o NatToDigits(arrayLen)]
        fallback == IF arrayLen > 0 THEN lenSample ELSE NoSample
        sampleOf(opt) ==
            IF arrays = <<>> THEN fallback
            ELSE IF opt = <<"[", "*", "]">>
            THEN (IF arrays[1].c # <<>> THEN toSample(ArrGet(arrays[1], 0))
                  ELSE toSample(arrays[1]))
            ELSE IF DigitVal(opt[2]) < Len(arrays[1].c)
            THEN toSample(ArrGet(arrays[1], DigitVal(opt[2])))
            ELSE fallback
        offered == SelectSeq(options,
                             LAMBDA opt : \/ partial = <<>>
                                          \/ startsWith(opt, <<"[">> \o partial)
                                          \/ startsWith(opt, partial))
    IN [items |-> [i \in 1..Len(offered) |->
                      Suggestion(ctx.base \o offered[i], offered[i], sampleOf(offered[i]))],
        replace |-> Replace(ctx.start, ctx.end)]

\* the suggestions for matches that are plain objects
keySuggestions(ctx, matches) ==
    LET gathered == collectObjectKeysFromMatches(matches)
        objectKeys == sortKeys([i \in 1..Len(gathered) |-> gathered[i].k])
        partial == IF ctx.kind \in {"dot", "bracket-string"} THEN trim(ctx.partial) ELSE <<>>
        filtered == Take(filterByPartial(objectKeys, partial), 80)
        seg(k) == IF ctx.kind = "dot" /\ isIdentifierKey(k) THEN <<".">> \o k
                  ELSE <<"[", "'">> \o escapeSingleQuotedString(k) \o <<"'", "]">>
    IN [items |-> [i \in 1..Len(filtered) |->
                      Suggestion(ctx.base \o seg(filtered[i]), seg(filtered[i]),
                                 GetSample(gathered, filtered[i]))],
        replace |-> Replace(ctx.start, ctx.end)]

\* the suggestions after the recursive-descent operator
descendantSuggestions(ctx, value) ==
    LET partial == trim(ctx.partial)
        samples == collectDescendantKeySamples(value, DefaultMaxNodes)
        keys == sortKeys([i \in 1..Len(samples) |-> samples[i].k])
        filtered == Take(filterByPartial(keys, partial), 80)
        star == IF partial = <<>> \/ partial = <<"*">>
                THEN <<Suggestion(ctx.base \o <<"*">>, <<"*">>, NoSample)>>
                ELSE <<>>
    IN [items |-> star \o [i \in 1..Len(filtered) |->
                              Suggestion(ctx.base \o filtered[i], filtered[i],
                                         GetSample(samples, filtered[i]))],
        replace |-> Replace(ctx.start, ctx.end)]

\* computeSuggestions, given the answer of the path evaluator for the base
\* a variant that offers nothing when the evaluator rejects the base
computeSuggestionsNoFallback(exprRaw, cursorPos, value, evaluated) ==
    LET ctx == getCompletionContext(exprRaw, cursorPos)
    IN IF ctx.kind = "root" THEN makeRoot(exprRaw, value)
       ELSE IF ctx.kind = "none" THEN [items |-> <<>>, replace |-> Replace(ctx.start, ctx.end)]
       ELSE IF ctx.kind = "descendant" THEN descendantSuggestions(ctx, value)
       ELSE IF ~evaluated.ok THEN [items |-> <<>>, replace |-> Replace(ctx.start, ctx.end)]
       ELSE LET matches == Take(evaluated.matches, 40)
            IN IF collectArraySampleLength(matches) > 0
                  \/ \E i \in 1..Len(matches) : IsArray(matches[i])
               THEN arraySuggestions(ctx, matches)
               ELSE keySuggestions(ctx, matches)

computeSuggestions(exprRaw, cursorPos, value, evaluated) ==
    LET ctx == getCompletionContext(exprRaw, cursorPos)
    IN IF ctx.kind = "root" THEN makeRoot(exprRaw, value)
       ELSE IF ctx.kind = "none" THEN [items |-> <<>>, replace |-> Replace(ctx.start, ctx.end)]
       ELSE IF ctx.kind = "descendant" THEN descendantSuggestions(ctx, value)
       ELSE IF ~evaluated.ok THEN makeRoot(exprRaw, value)
       ELSE LET matches == Take(evaluated.matches, 40)
            IN IF collectArraySampleLength(matches) > 0
                  \/ \E i \in 1..Len(matches) : IsArray(matches[i])
               THEN arraySuggestions(ctx, matches)
               ELSE keySuggestions(ctx, matches)

\* ------------------------------------------------- inputs of the operations

\* {"a":{"b":1},"c":[10,20]}
DocSample == Obj(1, <<Ent(<<"a">>, Obj(2, <<Ent(<<"b">>, Num(<<"1">>))>>)),
                      Ent(<<"c">>, Arr(3, <<Num(<<"1", "0">>), Num(<<"2", "0">>)>>))>>)

\* [{"a":1},[1,2],"s"]
DocList == Arr(1, <<Obj(2, <<Ent(<<"a">>, Num(<<"1">>))>>),
                    Arr(3, <<Num(<<"1">>), Num(<<"2">>)>>),
                    Str(<<"s">>)>>)

\* {"a":1,"b":2}
DocFlat == Obj(1, <<Ent(<<"a">>, Num(<<"1">>)), Ent(<<"b">>, Num(<<"2">>))>>)

\* {"0":[5],"a":{"0":null,"b":{}}}
DocDigitKeys == Obj(1, <<Ent(<<"0">>, Arr(2, <<Num(<<"5">>)>>)),
                         Ent(<<"a">>, Obj(3, <<Ent(<<"0">>, Null),
                                               Ent(<<"b">>, Obj(4, <<>>))>>))>>)

\* [[{"b":true}],[]]
DocDeep == Arr(1, <<Arr(2, <<Obj(3, <<Ent(<<"b">>, Bool(TRUE))>>)>>), Arr(4, <<>>)>>)

\* "s"
DocScalar == Str(<<"s">>)

Docs == {DocSample, DocList, DocFlat, DocDigitKeys, DocDeep, DocScalar}

PathKeys == {<<"a">>, <<"b">>, <<"c">>, <<"0">>}

Segments == {Key(k) : k \in PathKeys} \cup {Index(i) : i \in 0..MaxIndex}

Paths == UNION {[1..len -> Segments] : len \in 0..MaxPathLen}

EditKeys == {<<"a">>, <<"b">>, <<"z">>, <<"0">>, <<"1">>}

\* Values a caller passes in; a container among them is a new allocation n.
InputValues(n) == {Num(<<"7">>), Str(<<"s">>), Null, Obj(n, <<>>)}

NoCall == [op |-> "none", path |-> <<>>, key |-> <<>>, newKey |-> <<>>, value |-> Undef]

\* {"0":{"1":4},"a/b":[1,{"~":2}],"~1":3,"m~0":[[7]]}
PtrDocMap ==
    Obj(1, <<Ent(<<"0">>, Obj(2, <<Ent(<<"1">>, Num(<<"4">>))>>)),
             Ent(<<"a", "/", "b">>,
                 Arr(3, <<Num(<<"1">>), Obj(4, <<Ent(<<"~">>, Num(<<"2">>))>>)>>)),
             Ent(<<"~", "1">>, Num(<<"3">>)),
             Ent(<<"m", "~", "0">>, Arr(5, <<Arr(6, <<Num(<<"7">>)>>)>>))>>)

\* [[1,2],{"0":"x","01":1,"":2}]
PtrDocList ==
    Arr(1, <<Arr(2, <<Num(<<"1">>), Num(<<"2">>)>>),
             Obj(3, <<Ent(<<"0">>, Str(<<"x">>)), Ent(<<"0", "1">>, Num(<<"1">>)),
                      Ent(<<>>, Num(<<"2">>))>>)>>)

PtrDocs == {PtrDocMap, PtrDocList}

PtrKeys == {<<"0">>, <<"1">>, <<"a", "/", "b">>, <<"~">>, <<"~", "1">>,
            <<"m", "~", "0">>, <<"0", "1">>, <<>>}

PtrSegments == {Key(k) : k \in PtrKeys} \cup {Index(i) : i \in 0..MaxIndex}

PtrPaths == UNION {[1..len -> PtrSegments] : len \in 0..MaxPathLen}

\* Pointer texts that no encoding produces.
RawPointers == {<<"a">>, <<"a", "/", "b">>, <<"/">>, <<"/", "/", "0">>,
                <<"/", "~">>, <<"/", "~", "2">>, <<"/", "~", "0", "1">>,
                <<"/", "0", "0">>, <<"/", "1", "/", "0", "1">>}

ExprChars == {".", "a", "[", "]", "'", "?", "(", "\\", "\""}

ExprSamples ==
    {<<"$">>,
     <<"$", ".", "u", "s", "e">>,
     <<"$", ".", "i", "t", "e", "m", "s", "[", "0", "]", ".">>,
     <<"$", ".", "a", "[", "'", "b", ".", "c", "'", "]", ".", "x">>,
     <<"$", ".", "a", "r", "r", "[", "?", "(", "@", ".", "x">>,
     <<"$", "[", "'", "a", ".", "b">>,
     <<"u", "s", "e">>,
     <<"$", "[", " ", "?", "(", "@">>,
     <<"$", ".", "a", "[", "b", "[", "c", "]">>,
     <<"$", "[", "\"", "k">>,
     <<"$", ".", ".", "n", "a">>,
     <<"$", "x", "[", "0">>,
     <<"$", "[", "a", "[", "b", "]">>,
     <<"$", "[", "'", "a", "]", "b">>}

\* The sample expressions and every "$" followed by at most MaxExprTail
\* characters of ExprChars.
Exprs ==
    ExprSamples \cup
    UNION {{<<"$">> \o tail : tail \in [1..len -> ExprChars]} : len \in 0..MaxExprTail}

NoContext == Context("unset", <<>>, <<>>, 0, 0)

\* {"a":[true]}
TextA == <<"{", "\"", "a", "\"", ":", "[", "t", "r", "u", "e", "]", "}">>

\* {"a":[1],"b":2} followed by a newline
TextAB == <<"{", "\"", "a", "\"", ":", "[", "1", "]", ",",
            "\"", "b", "\"", ":", "2", "}", "\n">>

\* {"a":   (not JSON)
TextBad == <<"{", "\"", "a", "\"", ":">>

\* a single space
TextBlank == <<" ">>

\* Texts the user types or pastes into the input area.
TypedTexts == {TextA, TextAB, TextBad, TextBlank}

\* Texts the input area may hold when the application starts.
StoredInputs == {<<>>, TextAB}

\* Keys typed into the tree's key fields.
AppKeys == {<<"b">>}

\* Values committed from the tree's editors.
AppValues == {Num(<<"7">>)}

\* Texts typed into the textarea of the table's cell editor: nothing, x
\* and 8.
CellTexts == {<<>>, <<"x">>, <<"8">>}

\* The options of the select the cell editor shows for a boolean.
CellOptions == {<<"t", "r", "u", "e">>, <<"f", "a", "l", "s", "e">>}

\* ------------------------------------- specifications of the pure functions

VARIABLES doc, call, out, pointer, decoded, expr, cursor, ctx,
          input, parsed, lastValid, error, formatError, timer,
          undoStack, redoStack, history, cellEditor, event, steps,
          queue, seen, collected, visited, maxNodes,
          suggestions, activeSuggest, suggestReplace, suggestOpenFor,
          storage

appVars == <<input, parsed, lastValid, error, formatError, timer,
             undoStack, redoStack, history, cellEditor, event, steps>>

\* the work queue of the sample collector, its budget and what it gathered
collectVars == <<queue, seen, collected, visited, maxNodes>>

\* the suggestion list of the expression input
suggestVars == <<suggestions, activeSuggest, suggestReplace, suggestOpenFor>>

vars == <<doc, call, out, pointer, decoded, expr, cursor, ctx, appVars,
          collectVars, suggestVars, storage>>

docVars == <<doc, out>>

ptrVars == <<pointer, decoded>>

ctxVars == <<expr, cursor, ctx>>

DocIdle == doc = Undef /\ out = Undef

PtrIdle == pointer = <<>> /\ decoded = NoPath

CtxIdle == expr = <<>> /\ cursor = 0 /\ ctx = NoContext

CellClosed == [open |-> FALSE, pointer |-> <<>>, originalValue |-> Undef,
               text |-> <<>>, error |-> FALSE]

NoEvent == [name |-> "none", pointer |-> <<>>, path |-> <<>>, value |-> Undef]

CollectIdle ==
    /\ queue = <<>> /\ seen = 0 /\ collected = <<>> /\ visited = <<>>
    /\ maxNodes = 0

SuggestIdle ==
    /\ suggestions = <<>> /\ activeSuggest = 0
    /\ suggestReplace = [start |-> 0, end |-> 0] /\ suggestOpenFor = FALSE

StorageIdle == storage = <<>>

AppIdle ==
    /\ input = <<>> /\ parsed = Null /\ lastValid = Null
    /\ error = FALSE /\ formatError = FALSE /\ timer = FALSE
    /\ undoStack = <<>> /\ redoStack = <<>> /\ history = <<>>
    /\ cellEditor = CellClosed
    /\ event = NoEvent /\ steps = 0

\* --- the document operations, each applied once to a sample document

DocInit ==
    /\ doc \in Docs
    /\ call = NoCall
    /\ out = Undef
    /\ PtrIdle
    /\ CtxIdle
    /\ AppIdle
    /\ CollectIdle /\ SuggestIdle /\ StorageIdle

CallUpdate(path, v) ==
    /\ call = NoCall
    /\ call' = [NoCall EXCEPT !.op = "update", !.path = path, !.value = v]
    /\ out' = updateAtPath(doc, path, v, FreshId(doc) + 1).v
    /\ UNCHANGED <<doc, ptrVars, ctxVars, appVars, collectVars, suggestVars, storage>>

CallAddToObject(path, key, v) ==
    /\ call = NoCall
    /\ call' = [NoCall EXCEPT !.op = "addToObject", !.path = path, !.key = key, !.value = v]
    /\ out' = addToObjectAtPath(doc, path, key, v, FreshId(doc) + 1).v
    /\ UNCHANGED <<doc, ptrVars, ctxVars, appVars, collectVars, suggestVars, storage>>

CallAddToArray(path, v) ==
    /\ call = NoCall
    /\ call' = [NoCall EXCEPT !.op = "addToArray", !.path = path, !.value = v]
    /\ out' = addToArrayAtPath(doc, path, v, FreshId(doc) + 1).v
    /\ UNCHANGED <<doc, ptrVars, ctxVars, appVars, collectVars, suggestVars, storage>>

CallDelete(path) ==
    /\ call = NoCall
    /\ call' = [NoCall EXCEPT !.op = "delete", !.path = path]
    /\ out' = deleteAtPath(doc, path, FreshId(doc)).v
    /\ UNCHANGED <<doc, ptrVars, ctxVars, appVars, collectVars, suggestVars, storage>>

CallRename(path, oldKey, newKey) ==
    /\ call = NoCall
    /\ call' = [NoCall EXCEPT !.op = "rename", !.path = path, !.key = oldKey,
                              !.newKey = newKey]
    /\ out' = renameKeyAtPath(doc, path, oldKey, newKey, FreshId(doc)).v
    /\ UNCHANGED <<doc, ptrVars, ctxVars, appVars, collectVars, suggestVars, storage>>

DocNext ==
    \/ call = NoCall /\ \E path \in Paths, v \in InputValues(FreshId(doc)) :
                            CallUpdate(path, v)
    \/ call = NoCall /\ \E path \in Paths, key \in EditKeys, v \in InputValues(FreshId(doc)) :
                            CallAddToObject(path, key, v)
    \/ call = NoCall /\ \E path \in Paths, v \in InputValues(FreshId(doc)) :
                            CallAddToArray(path, v)
    \/ call = NoCall /\ \E path \in Paths : CallDelete(path)
    \/ call = NoCall /\ \E path \in Paths, oldKey \in EditKeys, newKey \in EditKeys :
                            CallRename(path, oldKey, newKey)

SpecDoc == DocInit /\ [][DocNext]_vars

\* --- the pointer codec, applied once to a sample document

PtrInit ==
    /\ doc \in PtrDocs
    /\ call = NoCall
    /\ out = Undef
    /\ PtrIdle
    /\ CtxIdle
    /\ AppIdle
    /\ CollectIdle /\ SuggestIdle /\ StorageIdle

\* decode the encoding of a path
DecodeEncoded(path) ==
    /\ call = NoCall
    /\ call' = [NoCall EXCEPT !.op = "decode", !.path = path]
    /\ pointer' = encodePointer(path)
    /\ decoded' = jsonPointerToPath(encodePointer(path), doc)
    /\ UNCHANGED <<docVars, ctxVars, appVars, collectVars, suggestVars, storage>>

\* decode an arbitrary pointer text
DecodeRaw(text) ==
    /\ call = NoCall
    /\ call' = [NoCall EXCEPT !.op = "decodeRaw"]
    /\ pointer' = text
    /\ decoded' = jsonPointerToPath(text, doc)
    /\ UNCHANGED <<docVars, ctxVars, appVars, collectVars, suggestVars, storage>>

PtrNext ==
    \/ call = NoCall /\ \E path \in PtrPaths : DecodeEncoded(path)
    \/ call = NoCall /\ \E text \in RawPointers : DecodeRaw(text)

SpecPtr == PtrInit /\ [][PtrNext]_vars

\* --- the completion context analyzer, applied once to an expression

CtxInit ==
    /\ expr \in Exprs
    /\ cursor = 0
    /\ ctx = NoContext
    /\ call = NoCall
    /\ DocIdle
    /\ PtrIdle
    /\ AppIdle
    /\ CollectIdle /\ SuggestIdle /\ StorageIdle

Analyze(pos) ==
    /\ call = NoCall
    /\ call' = [NoCall EXCEPT !.op = "analyze"]
    /\ cursor' = pos
    /\ ctx' = getCompletionContext(expr, pos)
    /\ UNCHANGED <<expr, docVars, ptrVars, appVars, collectVars, suggestVars, storage>>

CtxNext == \E pos \in (-1)..(Len(expr) + 1) : Analyze(pos)

SpecCtx == CtxInit /\ [][CtxNext]_vars

\* --- the sample collector, one turn of its loop at a time

\* {"a":{"x":{"k":1}},"b":{"k":2}}
CollectDocNested ==
    Obj(1, <<Ent(<<"a">>, Obj(2, <<Ent(<<"x">>, Obj(3, <<Ent(<<"k">>, Num(<<"1">>))>>))>>)),
             Ent(<<"b">>, Obj(4, <<Ent(<<"k">>, Num(<<"2">>))>>))>>)

\* [{"k":null},[{"z":"s","k":true}],3]
CollectDocList ==
    Arr(1, <<Obj(2, <<Ent(<<"k">>, Null)>>),
             Arr(3, <<Obj(4, <<Ent(<<"z">>, Str(<<"s">>)), Ent(<<"k">>, Bool(TRUE))>>)>>),
             Num(<<"3">>)>>)

\* {"b":1,"a":[{"b":2}]}
CollectDocUnsorted ==
    Obj(1, <<Ent(<<"b">>, Num(<<"1">>)),
             Ent(<<"a">>, Arr(2, <<Obj(3, <<Ent(<<"b">>, Num(<<"2">>))>>)>>))>>)

\* {"k":"xx...x"} with a string of 57 characters
CollectDocLong == Obj(1, <<Ent(<<"k">>, Str([i \in 1..(SampleLen + 1) |-> "x"]))>>)

CollectDocs == {CollectDocNested, CollectDocList, CollectDocUnsorted,
                CollectDocLong, Null}

Budgets == (0..MaxBudget) \cup {DefaultMaxNodes}

CollectFunctions == {"collectDescendantKeys", "collectDescendantKeySamples"}

\* const queue = [root]; let seen = 0
CollectInit ==
    /\ doc \in CollectDocs
    /\ maxNodes \in Budgets
    /\ \E fn \in CollectFunctions : call = [NoCall EXCEPT !.op = fn]
    /\ queue = <<doc>>
    /\ seen = 0
    /\ collected = <<>>
    /\ visited = <<>>
    /\ out = Undef
    /\ PtrIdle
    /\ CtxIdle
    /\ AppIdle
    /\ SuggestIdle /\ StorageIdle

\* the values a dequeued node puts on the queue
enqueued(cur) ==
    IF IsArray(cur) \/ isPlainObject(cur)
    THEN [i \in 1..Len(cur.c) |-> cur.c[i].v]
    ELSE <<>>

\* one turn of the loop with the values of a node put in front of the queue
CollectStepDepthFirst ==
    /\ out = Undef
    /\ queue # <<>> /\ seen < maxNodes
    /\ LET cur == Head(queue)
       IN /\ queue' = enqueued(cur) \o Tail(queue)
          /\ seen' = seen + 1
          /\ visited' = Append(visited, cur)
          /\ collected' = IF isPlainObject(cur)
                          THEN gatherEntries(collected, cur.c,
                                             call.op = "collectDescendantKeySamples")
                          ELSE collected
    /\ UNCHANGED <<doc, call, out, maxNodes, ptrVars, ctxVars, appVars,
                   suggestVars, storage>>

\* one turn of while (queue.length && seen < maxNodes)
CollectStep ==
    /\ out = Undef
    /\ queue # <<>> /\ seen < maxNodes
    /\ LET cur == Head(queue)
       IN /\ queue' = Tail(queue) \o enqueued(cur)
          /\ seen' = seen + 1
          /\ visited' = Append(visited, cur)
          /\ collected' = IF isPlainObject(cur)
                          THEN gatherEntries(collected, cur.c,
                                             call.op = "collectDescendantKeySamples")
                          ELSE collected
    /\ UNCHANGED <<doc, call, out, maxNodes, ptrVars, ctxVars, appVars,
                   suggestVars, storage>>

\* the loop has ended: return the sorted keys, or the map
CollectReturn ==
    /\ out = Undef
    /\ ~(queue # <<>> /\ seen < maxNodes)
    /\ out' = [t |-> "returned",
               keys |-> IF call.op = "collectDescendantKeys"
                        THEN sortKeys([i \in 1..Len(collected) |-> collected[i].k])
                        ELSE [i \in 1..Len(collected) |-> collected[i].k],
               samples |-> collected]
    /\ UNCHANGED <<doc, call, collectVars, ptrVars, ctxVars, appVars,
                   suggestVars, storage>>

CollectNext ==
    \/ CollectStep
    \/ CollectReturn

SpecCollect == CollectInit /\ [][CollectNext]_vars /\ WF_vars(CollectNext)

\* --- the expression input of a column and its suggestion list

\* {"a":[1,2],"b":{"c":"s"},"cc":1,"dd":1,"ee":1,"ff":1,"gg":1,"hh":1,"i j":1}
SuggestDocWide ==
    Obj(1, <<Ent(<<"a">>, Arr(2, <<Num(<<"1">>), Num(<<"2">>)>>)),
             Ent(<<"b">>, Obj(3, <<Ent(<<"c">>, Str(<<"s">>))>>)),
             Ent(<<"c", "c">>, Num(<<"1">>)), Ent(<<"d", "d">>, Num(<<"1">>)),
             Ent(<<"e", "e">>, Num(<<"1">>)), Ent(<<"f", "f">>, Num(<<"1">>)),
             Ent(<<"g", "g">>, Num(<<"1">>)), Ent(<<"h", "h">>, Num(<<"1">>)),
             Ent(<<"i", " ", "j">>, Num(<<"1">>))>>)

SuggestDocs == {SuggestDocWide}

\* the expressions a column holds when its popover is opened:
\* $   $.a.   $[].   x.a
SuggestExprs ==
    {<<"$">>, <<"$", ".", "a", ".">>, <<"$", "[", "]", ".">>, <<"x", ".", "a">>}

\* the places of the caret in the expressions above and in the accepted ones
CaretStops == 0..(MaxAppliedLen + 1)

\* the characters typed into the expression input
TypedChars == {"."}

\* the number of suggestions the list shows
VisibleLimit == 12

\* the places in the list that are clicked: the first and the last shown
ClickedItems == {0, VisibleLimit - 1}

NoSuggestion == Suggestion(<<>>, <<>>, NoSample)

\* the last event of the expression input, the answer of the path evaluator
\* it used (asked is FALSE when it was not called) and the suggestion accepted
SuggestCall(op, asked, evaluated, item) ==
    [op |-> op, asked |-> asked, evaluated |-> evaluated, item |-> item]

\* an event that neither computes the list nor accepts a suggestion
QuietCall == SuggestCall("none", FALSE, Matched(<<>>), NoSuggestion)

\* the evaluator is called for the base of a dot or bracket context only
AsksEvaluator(expression, pos) ==
    getCompletionContext(expression, pos).kind \in {"dot", "bracket-string", "bracket-index"}

\* the answers the evaluator may give while computeSuggestions(expression, pos) runs
Answers(expression, pos) ==
    IF AsksEvaluator(expression, pos)
    THEN EvalOutcomes(getCompletionContext(expression, pos).base, doc)
    ELSE {Matched(<<>>)}

SuggestInit ==
    /\ doc \in SuggestDocs
    /\ expr \in SuggestExprs
    /\ cursor = Len(expr)
    /\ suggestions = <<>> /\ activeSuggest = 0
    /\ suggestReplace = Replace(0, 0) /\ suggestOpenFor = FALSE
    /\ call = NoCall
    /\ out = Undef /\ ctx = NoContext
    /\ PtrIdle
    /\ AppIdle
    /\ CollectIdle /\ StorageIdle

suggestFrame == UNCHANGED <<doc, out, ctx, ptrVars, appVars, collectVars, storage>>

openSuggestions(op, exprRaw, pos, evaluated) ==
    \E next \in {computeSuggestions(exprRaw, pos, doc, evaluated)} :
       /\ suggestions' = next.items
       /\ activeSuggest' = 0
       /\ suggestReplace' = next.replace
       /\ suggestOpenFor' = (next.items # <<>>)
       /\ call' = SuggestCall(op, AsksEvaluator(exprRaw, pos), evaluated, NoSuggestion)

\* the new text is set by the program and the caret goes to its end
applySuggestion(item, evaluated) ==
    \E replace \in {computeSuggestions(expr, cursor, doc, evaluated).replace} :
    \E next \in {SubSeq(expr, 1, replace.start) \o item.value
                  \o SubSeq(expr, replace.end + 1, Len(expr))} :
       /\ Len(next) <= MaxAppliedLen
       /\ expr' = next
       /\ cursor' = Len(next)
       /\ suggestOpenFor' = FALSE
       /\ call' = SuggestCall("applySuggestion", AsksEvaluator(expr, cursor), evaluated, item)
       /\ UNCHANGED <<suggestions, activeSuggest, suggestReplace>>

\* onChange: a character typed at the caret
TypeChar(ch) ==
    /\ Len(expr) < MaxExprLen
    /\ LET nextVal == SubSeq(expr, 1, cursor) \o <<ch>> \o SubSeq(expr, cursor + 1, Len(expr))
       IN /\ expr' = nextVal
          /\ cursor' = cursor + 1
          /\ \E evaluated \in Answers(nextVal, cursor + 1) :
                openSuggestions("onChange", nextVal, cursor + 1, evaluated)
    /\ suggestFrame

\* the caret moved by an arrow key or a click inside the focused input: no
\* handler changes the list
MoveCaret(pos) ==
    /\ pos <= Len(expr)
    /\ pos # cursor
    /\ cursor' = pos
    /\ call' = QuietCall
    /\ UNCHANGED <<expr, suggestVars>>
    /\ suggestFrame

\* onFocus: the list is computed for the end of the text; the caret is put
\* there too
FocusExpr ==
    /\ cursor' = Len(expr)
    /\ \E evaluated \in Answers(expr, Len(expr)) :
          openSuggestions("onFocus", expr, Len(expr), evaluated)
    /\ UNCHANGED expr
    /\ suggestFrame

ListOpen == suggestOpenFor /\ suggestions # <<>>

KeyArrowDown ==
    /\ IF ~ListOpen
       THEN \E evaluated \in Answers(expr, cursor) :
               openSuggestions("ArrowDown", expr, cursor, evaluated)
       ELSE /\ activeSuggest' = IF activeSuggest + 1 < Len(suggestions) - 1
                                 THEN activeSuggest + 1 ELSE Len(suggestions) - 1
            /\ call' = QuietCall
            /\ UNCHANGED <<suggestions, suggestReplace, suggestOpenFor>>
    /\ UNCHANGED <<expr, cursor>>
    /\ suggestFrame

KeyArrowUp ==
    /\ IF ~ListOpen
       THEN \E evaluated \in Answers(expr, cursor) :
               openSuggestions("ArrowUp", expr, cursor, evaluated)
       ELSE /\ activeSuggest' = IF activeSuggest - 1 > 0 THEN activeSuggest - 1 ELSE 0
            /\ call' = QuietCall
            /\ UNCHANGED <<suggestions, suggestReplace, suggestOpenFor>>
    /\ UNCHANGED <<expr, cursor>>
    /\ suggestFrame

KeyEscape ==
    /\ ListOpen
    /\ suggestOpenFor' = FALSE
    /\ call' = QuietCall
    /\ UNCHANGED <<expr, cursor, suggestions, activeSuggest, suggestReplace>>
    /\ suggestFrame

\* Enter or Tab with the list open accepts the active suggestion; Enter with
\* the list closed closes the popover of the column
KeyEnter ==
    /\ IF ListOpen
       THEN IF activeSuggest < Len(suggestions)
            THEN \E evaluated \in Answers(expr, cursor) :
                    applySuggestion(suggestions[activeSuggest + 1], evaluated)
            ELSE /\ call' = QuietCall
                 /\ UNCHANGED <<expr, cursor, suggestVars>>
       ELSE /\ suggestions' = <<>> /\ activeSuggest' = 0
            /\ suggestReplace' = Replace(0, 0) /\ suggestOpenFor' = FALSE
            /\ call' = QuietCall
            /\ UNCHANGED <<expr, cursor>>
    /\ suggestFrame

\* a click on one of the suggestions the list shows
ClickSuggestion(sIdx) ==
    /\ ListOpen
    /\ sIdx < Len(Take(suggestions, VisibleLimit))
    /\ \E evaluated \in Answers(expr, cursor) :
          applySuggestion(suggestions[sIdx + 1], evaluated)
    /\ suggestFrame

SuggestNext ==
    \/ \E ch \in TypedChars : TypeChar(ch)
    \/ \E pos \in CaretStops : MoveCaret(pos)
    \/ FocusExpr
    \/ KeyArrowDown
    \/ KeyArrowUp
    \/ KeyEscape
    \/ KeyEnter
    \/ \E sIdx \in ClickedItems : ClickSuggestion(sIdx)

SpecSuggest == SuggestInit /\ [][SuggestNext]_vars

\* --- decoding an input text, and decoding its canonical text again

\* the texts at the leaves of the inputs: documents, texts that look like
\* JSON without being JSON, and texts that do not look like JSON
DecodeLeaves ==
    {<<"1">>, <<"t", "r", "u", "e">>, <<"[", "1", "]">>, <<" ", "[", "1", "]">>,
     <<"{", "\"", "k", "\"", ":", "1", "}">>, <<"{">>, <<"[", "1">>, <<"x">>,
     <<"[", "\"", "[", "1", "]", "\"", ",", "\"", "{", "\"", "]">>}

\* how often a leaf is written as a JSON string of its own text
MaxQuotes == 2

RECURSIVE QuoteTimes(_, _)
QuoteTimes(text, k) == IF k = 0 THEN text ELSE Quote(QuoteTimes(text, k - 1))

Wraps == {"bare", "member", "element"}

WrapText(w, text) ==
    IF w = "member" THEN <<"{", "\"", "a", "\"", ":">> \o text \o <<"}">>
    ELSE IF w = "element" THEN <<"[">> \o text \o <<",", "2", "]">>
    ELSE text

DecodeTexts ==
    {WrapText(w, QuoteTimes(leaf, k)) : w \in Wraps, leaf \in DecodeLeaves, k \in 0..MaxQuotes}

DecodeInit ==
    /\ input \in DecodeTexts
    /\ doc = Undef /\ out = Undef
    /\ call = NoCall
    /\ parsed = Null /\ lastValid = Null
    /\ error = FALSE /\ formatError = FALSE /\ timer = FALSE
    /\ undoStack = <<>> /\ redoStack = <<>> /\ history = <<>>
    /\ cellEditor = CellClosed
    /\ event = NoEvent /\ steps = 0
    /\ expr = <<>> /\ cursor = 0 /\ ctx = NoContext
    /\ PtrIdle
    /\ CollectIdle /\ SuggestIdle /\ StorageIdle

decodeFrame ==
    UNCHANGED <<input, expr, cursor, ctx, ptrVars, parsed, lastValid, formatError, timer,
                undoStack, redoStack, history, cellEditor, event, steps,
                collectVars, suggestVars, storage>>

\* decodeNestedJson(input): the decoded document, or NestedJsonError
DecodeInput ==
    /\ call.op = "none" /\ ~error
    /\ \E r \in {decodeNestedJson(input, 1)} :
          /\ error' = ~r.ok
          /\ doc' = IF r.ok THEN r.v ELSE Undef
          /\ call' = [NoCall EXCEPT !.op = IF r.ok THEN "decodeNestedJson" ELSE "none"]
    /\ UNCHANGED out
    /\ decodeFrame

\* decodeNestedJson(JSON.stringify(doc, null, 2))
DecodeAgain ==
    /\ call.op = "decodeNestedJson"
    /\ \E r \in {decodeNestedJson(stringify(doc), 1)} :
          /\ error' = ~r.ok
          /\ out' = IF r.ok THEN r.v ELSE Undef
    /\ call' = [NoCall EXCEPT !.op = "decodeAgain"]
    /\ UNCHANGED doc
    /\ decodeFrame

DecodeNext ==
    \/ DecodeInput
    \/ DecodeAgain

SpecDecode == DecodeInit /\ [][DecodeNext]_vars

\* ----------------------------------------------------------- the application

\* const MAX_RECORDS = 100
MAX_RECORDS == 100

\* The length the undo and redo stacks are cut to.
UndoLimit == 100

\* const displayValue = error ? lastValid : parsed
displayValue == IF error THEN lastValid ELSE parsed

\* const isReadonlyPreview = !!error
isReadonlyPreview == error

\* The paths of the nodes the tree and the table show for a value: the rows
\* and cells whose buttons and fields the user can reach. The actions of the
\* tree and of the table take their path from this set.
RECURSIVE NodePaths(_)
NodePaths(x) ==
    {<<>>} \cup
    UNION {{<<IF IsArray(x) THEN Index(i - 1) ELSE Key(x.c[i].k)>> \o p :
                p \in NodePaths(x.c[i].v)} : i \in 1..Len(x.c)}

IsContainer(x) == IsArray(x) \/ isPlainObject(x)

\* addRecord(input): the inputs of the records, newest first
\* a variant that does not filter the records of the same input out
addRecordKeepingDuplicate(records, text) ==
    LET next == <<text>> \o records
    IN SubSeq(next, 1, IF Len(next) > MAX_RECORDS THEN MAX_RECORDS ELSE Len(next))

addRecord(records, text) ==
    LET withoutDuplicate == SelectSeq(records, LAMBDA r : r # text)
        next == <<text>> \o withoutDuplicate
    IN SubSeq(next, 1, IF Len(next) > MAX_RECORDS THEN MAX_RECORDS ELSE Len(next))

\* --- the history kept in localStorage

\* safeParse(raw): the records stored, the first MAX_RECORDS of them
loadHistory(stored) ==
    SubSeq(stored, 1, IF Len(stored) > MAX_RECORDS THEN MAX_RECORDS ELSE Len(stored))

\* the history that adding the inputs n, n - 1, ..., 1 to an empty storage
\* leaves: the records of the inputs 1 to n
RecordsUpTo(n) == [i \in 1..n |-> NatToDigits(i)]

\* the inputs added: the first, a middle and the last of the stored ones and
\* two that are not stored
AddedInputs == {<<"1">>, <<"5", "0">>, <<"1", "0", "0">>, <<"x">>, <<"y">>}

HistoryInit ==
    /\ storage \in {<<>>, RecordsUpTo(MAX_RECORDS - 1), RecordsUpTo(MAX_RECORDS)}
    /\ history = loadHistory(storage)
    /\ call = NoCall
    /\ doc = Undef /\ out = Undef
    /\ input = <<>> /\ parsed = Null /\ lastValid = Null
    /\ error = FALSE /\ formatError = FALSE /\ timer = FALSE
    /\ undoStack = <<>> /\ redoStack = <<>>
    /\ cellEditor = CellClosed
    /\ event = NoEvent /\ steps = 0
    /\ expr = <<>> /\ cursor = 0 /\ ctx = NoContext
    /\ PtrIdle
    /\ CollectIdle /\ SuggestIdle

historyFrame ==
    UNCHANGED <<doc, out, expr, cursor, ctx, ptrVars, input, parsed, lastValid, error,
                formatError, timer, undoStack, redoStack, cellEditor, event, steps,
                collectVars, suggestVars>>

\* setHistory(addRecord(text)): saveHistory ignores the error of a setItem
\* that the storage refuses (its quota), and the list is returned either way
AddRecord(text, saved) ==
    /\ \E next \in {addRecord(loadHistory(storage), text)} :
          /\ storage' = IF saved THEN next ELSE storage
          /\ history' = next
    /\ call' = [op |-> "addRecord", input |-> text, saved |-> saved, before |-> storage]
    /\ historyFrame

\* clearHistory(); setHistory([])
clearHistory ==
    /\ storage # <<>> \/ history # <<>>
    /\ storage' = <<>>
    /\ history' = <<>>
    /\ call' = [op |-> "clearHistory", input |-> <<>>, saved |-> TRUE, before |-> storage]
    /\ historyFrame

HistoryNext ==
    \/ \E text \in AddedInputs, saved \in BOOLEAN : AddRecord(text, saved)
    \/ clearHistory

SpecHistory == HistoryInit /\ [][HistoryNext]_vars

\* stack.push(text) and the shift that follows it
pushCapped(stack, text) ==
    LET pushed == Append(stack, text)
    IN IF Len(pushed) > UndoLimit THEN Tail(pushed) ELSE pushed

\* setParsed(nextParsed), setError(nextError) and setInput(next) in one
\* handler, and the effect that runs when input changed: an input that trims
\* to nothing clears parsed, lastValid and error, any other one starts the
\* 300 ms timer (and cancels the one pending).
setInput(next, nextParsed, nextError) ==
    \E text \in {next} :
       /\ input' = text
       /\ IF text = input
          THEN parsed' = nextParsed /\ error' = nextError /\ UNCHANGED <<lastValid, timer>>
          ELSE IF trim(text) = <<>>
          THEN parsed' = Null /\ lastValid' = Null /\ error' = FALSE /\ timer' = FALSE
          ELSE parsed' = nextParsed /\ error' = nextError /\ timer' = TRUE
               /\ UNCHANGED lastValid

\* The table and its cell editor are mounted while a value is displayed;
\* unmounting the table drops the editor.
keepCellEditor(next) ==
    cellEditor' = IF (IF error' THEN lastValid' ELSE parsed') = Null
                  THEN CellClosed ELSE next

\* One more user event, named for the handler that serves it.
userEvent(name) ==
    /\ steps < MaxSteps
    /\ steps' = steps + 1
    /\ event' = [NoEvent EXCEPT !.name = name]

AppInit ==
    /\ input \in StoredInputs
    /\ parsed = Null /\ lastValid = Null
    /\ error = FALSE /\ formatError = FALSE
    /\ timer = (trim(input) # <<>>)
    /\ undoStack = <<>> /\ redoStack = <<>> /\ history = <<>>
    /\ cellEditor = CellClosed
    /\ event = NoEvent /\ steps = 0
    /\ call = NoCall
    /\ DocIdle
    /\ PtrIdle
    /\ CtxIdle
    /\ CollectIdle /\ SuggestIdle /\ StorageIdle

pureVars == <<doc, call, out, pointer, decoded, expr, cursor, ctx,
             collectVars, suggestVars, storage>>

\* the textarea's onChange
Type(text) ==
    /\ text # input
    /\ userEvent("onChange")
    /\ redoStack' = <<>>
    /\ setInput(text, parsed, error)
    /\ formatError' = FALSE
    /\ keepCellEditor(cellEditor)
    /\ UNCHANGED <<undoStack, history, pureVars>>

\* the callback of the 300 ms timer
TimerFire ==
    /\ timer
    /\ timer' = FALSE
    /\ \E decodedValue \in {decodeNestedJson(trim(input), 1)} :
          IF decodedValue.ok
          THEN /\ parsed' = Canonical(decodedValue.v)
               /\ lastValid' = parsed'
               /\ error' = FALSE
               /\ history' = addRecord(history, trim(input))
          ELSE /\ error' = TRUE
               /\ parsed' = Null
               /\ UNCHANGED <<lastValid, history>>
    /\ keepCellEditor(cellEditor)
    /\ UNCHANGED <<input, formatError, undoStack, redoStack, event, steps, pureVars>>

\* onKeyDown with the undo chord, the focus outside the input fields
Undo ==
    /\ undoStack # <<>>
    /\ userEvent("undo")
    /\ undoStack' = SubSeq(undoStack, 1, Len(undoStack) - 1)
    /\ redoStack' = pushCapped(redoStack, input)
    /\ setInput(undoStack[Len(undoStack)], parsed, error)
    /\ keepCellEditor(cellEditor)
    /\ UNCHANGED <<formatError, history, pureVars>>

\* onKeyDown with the redo chord
Redo ==
    /\ redoStack # <<>>
    /\ userEvent("redo")
    /\ redoStack' = SubSeq(redoStack, 1, Len(redoStack) - 1)
    /\ undoStack' = pushCapped(undoStack, input)
    /\ setInput(redoStack[Len(redoStack)], parsed, error)
    /\ keepCellEditor(cellEditor)
    /\ UNCHANGED <<formatError, history, pureVars>>

handleClearInput ==
    /\ input # <<>>
    /\ userEvent("handleClearInput")
    /\ redoStack' = <<>>
    /\ setInput(<<>>, parsed, error)
    /\ keepCellEditor(cellEditor)
    /\ UNCHANGED <<formatError, undoStack, history, pureVars>>

handleFormatInput ==
    /\ trim(input) # <<>>
    /\ userEvent("handleFormatInput")
    /\ \E decodedValue \in {decodeNestedJson(trim(input), 1)} :
          IF decodedValue.ok
          THEN /\ redoStack' = <<>>
               /\ setInput(stringify(decodedValue.v), parsed, error)
               /\ formatError' = FALSE
          ELSE /\ formatError' = TRUE
               /\ UNCHANGED <<input, parsed, lastValid, error, timer, redoStack>>
    /\ keepCellEditor(cellEditor)
    /\ UNCHANGED <<undoStack, history, pureVars>>

\* the click on a record of the history list
HistoryClick(i) ==
    /\ userEvent("historyClick")
    /\ setInput(history[i], parsed, error)
    /\ keepCellEditor(cellEditor)
    /\ UNCHANGED <<formatError, undoStack, redoStack, history, pureVars>>

\* the click on the button that clears the history
ClearHistory ==
    /\ history # <<>>
    /\ userEvent("clearHistory")
    /\ history' = <<>>
    /\ UNCHANGED <<input, parsed, lastValid, error, formatError, timer, undoStack,
                   redoStack, cellEditor, pureVars>>

\* One more user event that calls an edit handler with these arguments.
userCall(name, ptr, path, value) ==
    /\ steps < MaxSteps
    /\ steps' = steps + 1
    /\ event' = [name |-> name, pointer |-> ptr, path |-> path, value |-> value]

editVars == <<input, parsed, lastValid, error, timer, undoStack, redoStack>>

\* pushUndoSnapshot()
pushUndoSnapshot ==
    /\ undoStack' = pushCapped(undoStack, input)
    /\ redoStack' = <<>>

\* if (updated === parsed) return; commitParsedUpdate(updated)
commitParsedUpdate(updated) ==
    \E next \in {updated} :
       IF next = parsed
       THEN UNCHANGED <<input, parsed, lastValid, error, timer>>
       ELSE setInput(stringify(next), Canonical(next), FALSE)

\* handleEditValue without the setInput that writes the document back.
handleEditValueParsedOnly(path, nextValue) ==
    IF parsed = Null \/ error THEN UNCHANGED editVars
    ELSE LET updated == updateAtPath(parsed, path, nextValue, FreshId(parsed)).v
         IN /\ pushUndoSnapshot
            /\ parsed' = Canonical(updated)
            /\ error' = FALSE
            /\ UNCHANGED <<input, lastValid, timer>>

handleEditValue(path, nextValue) ==
    IF parsed = Null \/ error THEN UNCHANGED editVars
    ELSE \E updated \in {updateAtPath(parsed, path, nextValue, FreshId(parsed)).v} :
            /\ pushUndoSnapshot
            /\ setInput(stringify(updated), Canonical(updated), FALSE)

handleEditAtPointer(ptr, nextValue) ==
    IF parsed = Null THEN UNCHANGED editVars
    ELSE LET path == jsonPointerToPath(ptr, parsed)
         IN IF ~path.ok THEN UNCHANGED editVars
            ELSE handleEditValue(path.path, nextValue)

handleAddToObject(objectPath, key, value) ==
    IF parsed = Null \/ error \/ trim(key) = <<>> THEN UNCHANGED editVars
    ELSE /\ pushUndoSnapshot
         /\ commitParsedUpdate(
                addToObjectAtPath(parsed, objectPath, trim(key), value, FreshId(parsed)).v)

handleAddToArray(arrayPath, value) ==
    IF parsed = Null \/ error THEN UNCHANGED editVars
    ELSE /\ pushUndoSnapshot
         /\ commitParsedUpdate(addToArrayAtPath(parsed, arrayPath, value, FreshId(parsed)).v)

handleDeleteAtPath(path) ==
    IF parsed = Null \/ error \/ path = <<>> THEN UNCHANGED editVars
    ELSE /\ pushUndoSnapshot
         /\ commitParsedUpdate(deleteAtPath(parsed, path, FreshId(parsed)).v)

handleRenameKey(parentPath, oldKey, newKey) ==
    IF parsed = Null \/ error \/ trim(newKey) = <<>> THEN UNCHANGED editVars
    ELSE /\ pushUndoSnapshot
         /\ commitParsedUpdate(
                renameKeyAtPath(parsed, parentPath, oldKey, trim(newKey), FreshId(parsed)).v)

\* The tree is shown with its edit callbacks. The output panel shows the
\* tree or the table; the button between them is pressed as the user goes
\* from one to the other, and leaving the table unmounts it and its editor.
TreeEditable == displayValue # Null /\ ~isReadonlyPreview

treeFrame ==
    /\ cellEditor' = CellClosed
    /\ UNCHANGED <<formatError, history, pureVars>>

\* commitEdit of the node at path: a node that is not a container
commitEdit(path, v) ==
    /\ TreeEditable
    /\ ~IsContainer(read(displayValue, path))
    /\ userCall("handleEditValue", <<>>, path, v)
    /\ handleEditValue(path, v)
    /\ treeFrame

\* commitAdd of the object node at path: a key the object does not have
commitAddObject(path, key, v) ==
    /\ TreeEditable
    /\ isPlainObject(read(displayValue, path))
    /\ trim(key) # <<>>
    /\ ~HasOwn(read(displayValue, path), trim(key))
    /\ userCall("handleAddToObject", <<>>, path, v)
    /\ handleAddToObject(path, trim(key), v)
    /\ treeFrame

\* commitAdd of the array node at path
commitAddArray(path, v) ==
    /\ TreeEditable
    /\ IsArray(read(displayValue, path))
    /\ userCall("handleAddToArray", <<>>, path, v)
    /\ handleAddToArray(path, v)
    /\ treeFrame

\* the delete button of the node at path: any node but the root
deleteNode(path) ==
    /\ TreeEditable
    /\ path # <<>>
    /\ userCall("handleDeleteAtPath", <<>>, path, Undef)
    /\ handleDeleteAtPath(path)
    /\ treeFrame

\* commitKeyEdit of the member at path: the key field holds another key
commitKeyEdit(path, draftKey) ==
    /\ TreeEditable
    /\ path # <<>>
    /\ ~path[Len(path)].num
    /\ trim(draftKey) # <<>>
    /\ trim(draftKey) # path[Len(path)].s
    /\ userCall("handleRenameKey", <<>>, path, Str(trim(draftKey)))
    /\ handleRenameKey(SubSeq(path, 1, Len(path) - 1), path[Len(path)].s, trim(draftKey))
    /\ treeFrame

\* formatEditorText(v)
formatEditorText(v) ==
    IF v.t \in {"null", "undef"} THEN <<>>
    ELSE IF v.t \in {"str", "num", "bool"} THEN v.p
    ELSE stringify(v)

\* Number(trimmed) of a trimmed text: [finite, digits]. The empty text is 0,
\* a text of decimal digits is its value (leading zeros dropped), and the
\* other texts the model types (null, x) are NaN. Signs, fractions,
\* exponents and the other numeric literals are not among the texts.
ToNumber(trimmed) ==
    IF trimmed = <<>> THEN [finite |-> TRUE, digits |-> <<"0">>]
    ELSE IF \A i \in 1..Len(trimmed) : IsDigit(trimmed[i])
    THEN [finite |-> TRUE, digits |-> NatToDigits(DigitsToNat(trimmed))]
    ELSE [finite |-> FALSE, digits |-> <<>>]

\* A cell editor without the typed branches: every text is stored as a
\* string.
coerceCellTextAsString(originalValue, text) == [ok |-> TRUE, value |-> Str(text)]

\* What commitCellEditor makes of the editor's text: [ok, value]. ok is
\* FALSE when it sets the editor's error and calls nothing, otherwise value
\* is what it passes to onEditAtPointer.
coerceCellText(originalValue, text) ==
    LET trimmed == trim(text)
        empty == trimmed = <<>> \/ trimmed = <<"n", "u", "l", "l">>
        num == ToNumber(trimmed)
        json == IF trimmed # <<>> THEN JSONParse(trimmed, 1000) ELSE ParseFail
        emit(v) == [ok |-> TRUE, value |-> v]
    IN IF originalValue.t = "str" THEN emit(Str(text))
       ELSE IF originalValue.t = "num"
       THEN IF empty THEN emit(Null)
            ELSE IF ~num.finite THEN [ok |-> FALSE, value |-> Undef]
            ELSE emit(Num(num.digits))
       ELSE IF originalValue.t = "bool" /\ trimmed = <<"t", "r", "u", "e">>
       THEN emit(Bool(TRUE))
       ELSE IF originalValue.t = "bool" /\ trimmed = <<"f", "a", "l", "s", "e">>
       THEN emit(Bool(FALSE))
       ELSE IF originalValue.t = "bool" /\ empty THEN emit(Null)
       ELSE IF json.ok THEN emit(json.v)
       ELSE IF empty THEN emit(Null)
       ELSE IF trimmed = <<"t", "r", "u", "e">> THEN emit(Bool(TRUE))
       ELSE IF trimmed = <<"f", "a", "l", "s", "e">> THEN emit(Bool(FALSE))
       ELSE IF num.finite /\ num.digits = trimmed THEN emit(Num(num.digits))
       ELSE emit(Str(text))

\* openCellEditor on the cell of the node at path; the table's matches carry
\* the pointer and the value of the node they were computed for
openCellEditor(path) ==
    /\ displayValue # Null
    /\ encodePointer(path) # <<>>
    /\ ~isReadonlyPreview
    /\ userEvent("openCellEditor")
    /\ cellEditor' = [open |-> TRUE, pointer |-> encodePointer(path),
                      originalValue |-> read(displayValue, path),
                      text |-> formatEditorText(read(displayValue, path)),
                      error |-> FALSE]
    /\ UNCHANGED <<editVars, formatError, history, pureVars>>

\* onChange of the editor's field: a select with the options true and false
\* for a boolean, a textarea for every other value
changeCellText(text) ==
    /\ cellEditor.open
    /\ text \in (IF cellEditor.originalValue.t = "bool" THEN CellOptions ELSE CellTexts)
    /\ cellEditor' = [cellEditor EXCEPT !.text = text, !.error = FALSE]
    /\ UNCHANGED <<editVars, formatError, history, event, steps, pureVars>>

\* A cell editor that applies the edit itself, to the value the table
\* shows, whether or not the application passes onEditAtPointer.
commitCellEditorOnDisplayed ==
    /\ cellEditor.open
    /\ LET r == coerceCellText(cellEditor.originalValue, cellEditor.text)
           path == jsonPointerToPath(cellEditor.pointer, displayValue)
           updated == updateAtPath(displayValue, path.path, r.value,
                                   FreshId(displayValue)).v
       IN IF ~r.ok
          THEN /\ userCall("invalidNumber", cellEditor.pointer, <<>>, Undef)
               /\ cellEditor' = [cellEditor EXCEPT !.error = TRUE]
               /\ UNCHANGED editVars
          ELSE /\ userCall("handleEditAtPointer", cellEditor.pointer, <<>>, r.value)
               /\ IF displayValue = Null \/ ~path.ok THEN UNCHANGED editVars
                  ELSE /\ pushUndoSnapshot
                       /\ setInput(stringify(updated), Canonical(updated), FALSE)
                       /\ UNCHANGED lastValid
               /\ keepCellEditor(CellClosed)
    /\ UNCHANGED <<formatError, history, pureVars>>

\* commitCellEditor (the save button): nothing without onEditAtPointer,
\* which is not passed in the read-only preview
commitCellEditor ==
    /\ cellEditor.open
    /\ LET r == coerceCellText(cellEditor.originalValue, cellEditor.text)
       IN IF isReadonlyPreview
          THEN /\ userCall("commitCellEditor", cellEditor.pointer, <<>>, Undef)
               /\ UNCHANGED <<editVars, cellEditor>>
          ELSE IF ~r.ok
          THEN /\ userCall("invalidNumber", cellEditor.pointer, <<>>, Undef)
               /\ cellEditor' = [cellEditor EXCEPT !.error = TRUE]
               /\ UNCHANGED editVars
          ELSE /\ userCall("handleEditAtPointer", cellEditor.pointer, <<>>, r.value)
               /\ handleEditAtPointer(cellEditor.pointer, r.value)
               /\ keepCellEditor(CellClosed)
    /\ UNCHANGED <<formatError, history, pureVars>>

\* a pointer press outside the editor, or the Escape key
closeCellEditor ==
    /\ cellEditor.open
    /\ cellEditor' = CellClosed
    /\ UNCHANGED <<editVars, formatError, history, event, steps, pureVars>>

Next ==
    \/ \E text \in TypedTexts : Type(text)
    \/ TimerFire
    \/ Undo
    \/ Redo
    \/ handleClearInput
    \/ handleFormatInput
    \/ \E i \in 1..Len(history) : HistoryClick(i)
    \/ ClearHistory
    \/ \E path \in NodePaths(displayValue), v \in AppValues : commitEdit(path, v)
    \/ \E path \in NodePaths(displayValue), key \in AppKeys, v \in AppValues :
          commitAddObject(path, key, v)
    \/ \E path \in NodePaths(displayValue), v \in AppValues : commitAddArray(path, v)
    \/ \E path \in NodePaths(displayValue) : deleteNode(path)
    \/ \E path \in NodePaths(displayValue), draftKey \in AppKeys : commitKeyEdit(path, draftKey)
    \/ \E path \in NodePaths(displayValue) : openCellEditor(path)
    \/ cellEditor.open /\ \E text \in CellTexts \cup CellOptions : changeCellText(text)
    \/ commitCellEditor
    \/ closeCellEditor

Spec == AppInit /\ [][Next]_vars

\* --- edits of string leaves in the tree, and the parse that follows them

\* {"s":"x","t":["y"]}
TextStrings == <<"{", "\"", "s", "\"", ":", "\"", "x", "\"", ",",
                 "\"", "t", "\"", ":", "[", "\"", "y", "\"", "]", "}">>

\* the texts typed into the editor of a string leaf:
\* z   7   []   {}   "q"   {   [1]
LeafTexts ==
    {<<"z">>, <<"7">>, <<"[", "]">>, <<"{", "}">>, <<"\"", "q", "\"">>, <<"{">>,
     <<" ", "[", "1", "]">>}

ReparseInit ==
    /\ input = TextStrings
    /\ parsed = Null /\ lastValid = Null
    /\ error = FALSE /\ formatError = FALSE
    /\ timer = TRUE
    /\ undoStack = <<>> /\ redoStack = <<>> /\ history = <<>>
    /\ cellEditor = CellClosed
    /\ event = NoEvent /\ steps = 0
    /\ call = NoCall
    /\ DocIdle
    /\ PtrIdle
    /\ CtxIdle
    /\ CollectIdle /\ SuggestIdle /\ StorageIdle

\* commitEdit of a leaf whose primitiveType is string: onEditValue(path, text)
commitStringEdit(path, text) ==
    /\ read(displayValue, path).t = "str"
    /\ commitEdit(path, Str(text))

ReparseNext ==
    \/ TimerFire
    \/ \E path \in NodePaths(displayValue), text \in LeafTexts : commitStringEdit(path, text)
    \/ Undo
    \/ Redo

SpecReparse == ReparseInit /\ [][ReparseNext]_vars

\* ------------------------------------------ claims on the document operations

\* The path addresses a node of the document (documents hold no undefined).
Addresses(d, path) == read(d, path) # Undef

\* Some segment of the path meets an existing node of the wrong kind: a Key
\* meets a non-mapping or an Index meets a non-list.
HasMismatch(d, path) ==
    \E i \in 0..(Len(path) - 1) :
        LET node == read(d, SubSeq(path, 1, i))
            seg == path[i + 1]
        IN /\ node # Undef
           /\ IF seg.num THEN ~IsArray(node) ELSE ~isPlainObject(node)

\* Position of the entry a segment selects in a container (0: none).
SegPos(node, seg) ==
    IF seg.num
    THEN IF IsArray(node) /\ seg.i < Len(node.c) THEN seg.i + 1 ELSE 0
    ELSE IF isPlainObject(node) /\ HasOwn(node, seg.s)
         THEN CHOOSE i \in 1..Len(node.c) : node.c[i].k = seg.s
         ELSE 0

\* Along the path the containers of b have the entries of a, and every value
\* off the path is the very same value (the same reference for a container).
RECURSIVE SharedOffPath(_, _, _)
SharedOffPath(a, b, path) ==
    IF path = <<>> THEN TRUE
    ELSE /\ a.t = b.t
         /\ Len(a.c) = Len(b.c)
         /\ \A i \in 1..Len(a.c) :
               /\ b.c[i].k = a.c[i].k
               /\ IF i = SegPos(a, Head(path))
                  THEN SharedOffPath(a.c[i].v, b.c[i].v, Tail(path))
                  ELSE b.c[i].v = a.c[i].v

\* C1: if read(D, P) is undefined then deleteAtPath(D, P) returns D itself,
\* the same reference, with nothing copied and no key or slot added.
C1_DeleteOfMissingReturnsSame ==
    (call.op = "delete" /\ read(doc, call.path) = Undef) => out = doc

\* C3: updateAtPath(D, P, v) with a non-empty P returns D itself (the same
\* reference) whenever a segment of P, at any depth, mismatches its container.
C3_WriteMismatchReturnsSame ==
    (call.op = "update" /\ call.path # <<>> /\ HasMismatch(doc, call.path))
        => out = doc

\* C6: for a non-root path P that addresses an existing node, reading P in
\* updateAtPath(D, P, v) yields v and every subtree of D off the chain from
\* the root to P is reference-identical in the result.
C6_WriteReadsBackAndShares ==
    (call.op = "update" /\ call.path # <<>> /\ Addresses(doc, call.path))
        => /\ read(out, call.path) = call.value
           /\ SharedOffPath(doc, out, call.path)

\* C6 witness: a write two levels down replaced the leaf, copied the root and
\* kept a sibling container of the root by reference.
C6_Witness ==
    /\ call.op = "update"
    /\ Len(call.path) = 2
    /\ Addresses(doc, call.path)
    /\ read(out, call.path) = call.value
    /\ read(doc, call.path) # call.value
    /\ out.id # doc.id
    /\ \E i \in 1..Len(doc.c) :
          /\ i # SegPos(doc, call.path[1])
          /\ doc.c[i].v.id # 0
          /\ out.c[i].v = doc.c[i].v

\* C7: updateAtPath(updateAtPath(D, P, v1), P, v2) is structurally equal to
\* updateAtPath(D, P, v2), for every path P and all values v1, v2 (out is
\* the first write, of v1).
C7_LastWriteWins ==
    call.op = "update" =>
        \A v2 \in InputValues(FreshId(out)) :
            Strip(updateAtPath(out, call.path, v2, FreshId(out) + 1).v)
                = Strip(updateAtPath(doc, call.path, v2, FreshId(out) + 1).v)

\* C7 witness: a first write of v1 at a valid non-root path changed the
\* document, and a second write of another value changes it again.
C7_Witness ==
    /\ call.op = "update"
    /\ call.path # <<>>
    /\ Addresses(doc, call.path)
    /\ Strip(out) # Strip(doc)
    /\ \E v2 \in InputValues(FreshId(out)) :
          /\ Strip(v2) # Strip(call.value)
          /\ Strip(updateAtPath(out, call.path, v2, FreshId(out) + 1).v) # Strip(out)

\* C8: renameKeyAtPath returns D unchanged when the node at parentPath is not
\* a mapping, oldKey is absent from it or newKey is present in it; otherwise
\* the mapping of the result has exactly the original entries in their
\* original order, newKey standing where oldKey stood with oldKey's value.
C8_RenameRejectsOrKeepsOrder ==
    call.op = "rename" =>
        LET target == read(doc, call.path)
        IN IF \/ ~isPlainObject(target)
              \/ ~HasOwn(target, call.key)
              \/ HasOwn(target, call.newKey)
           THEN out = doc
           ELSE LET renamed == read(out, call.path)
                IN /\ isPlainObject(renamed)
                   /\ Len(renamed.c) = Len(target.c)
                   /\ \A i \in 1..Len(target.c) :
                         /\ renamed.c[i].v = target.c[i].v
                         /\ renamed.c[i].k = IF target.c[i].k = call.key
                                             THEN call.newKey
                                             ELSE target.c[i].k

\* Equal as JSON documents: the same canonical serialization. A member that
\* holds undefined, which JSON cannot express, does not count; an undefined
\* list slot does (it is written null).
SameDocument(a, b) == stringify(a) = stringify(b)

\* C13: addToObjectAtPath(D, objectPath, key, v) changes the document only
\* when the node at objectPath exists, is a mapping and does not contain key;
\* in every other case the result equals D, and the value of an existing key
\* is never replaced.
C13_InsertKeyOnlyIntoMappingWithoutKey ==
    call.op = "addToObject" =>
        LET node == read(doc, call.path)
        IN /\ ~(isPlainObject(node) /\ ~HasOwn(node, call.key)) => SameDocument(out, doc)
           /\ (isPlainObject(node) /\ HasOwn(node, call.key)) =>
                  read(out, Append(call.path, Key(call.key))) = ObjGet(node, call.key)

\* C14: deleteAtPath(D, P) with P ending in an index i inside a list yields
\* that list without element i, the later elements moved down by one in
\* their order; with P ending in a key k of a mapping it yields the mapping
\* without k and its other entries unchanged; an empty P returns D itself.
C14_DeleteRemovesExactlyTheTarget ==
    call.op = "delete" =>
        IF call.path = <<>> THEN out = doc
        ELSE LET parentPath == SubSeq(call.path, 1, Len(call.path) - 1)
                 last == call.path[Len(call.path)]
                 node == read(doc, parentPath)
                 res == read(out, parentPath)
             IN /\ (last.num /\ IsArray(node) /\ last.i < Len(node.c)) =>
                       /\ IsArray(res)
                       /\ Len(res.c) = Len(node.c) - 1
                       /\ \A j \in 1..Len(res.c) :
                             res.c[j] = IF j <= last.i THEN node.c[j] ELSE node.c[j + 1]
                /\ (~last.num /\ isPlainObject(node) /\ HasOwn(node, last.s)) =>
                       /\ isPlainObject(res)
                       /\ ~HasOwn(res, last.s)
                       /\ res.c = SelectSeq(node.c, LAMBDA e : e.k # last.s)

\* C14 witness: deleting ["c", 0] from {"a":{"b":1},"c":[10,20]} gave
\* {"a":{"b":1},"c":[20]}.
C14_Witness ==
    /\ call.op = "delete"
    /\ doc = DocSample
    /\ call.path = <<Key(<<"c">>), Index(0)>>
    /\ Strip(out) = Strip(Obj(1, <<Ent(<<"a">>, Obj(2, <<Ent(<<"b">>, Num(<<"1">>))>>)),
                                   Ent(<<"c">>, Arr(3, <<Num(<<"2", "0">>)>>))>>))

\* C15: addToArrayAtPath(D, arrayPath, v) leaves the document as it is unless
\* the node at arrayPath exists and is a list; for a list of length n the
\* list of the result has length n+1, its first n elements are the original
\* ones in order and element n is v.
C15_AppendOnlyToList ==
    call.op = "addToArray" =>
        LET node == read(doc, call.path)
            res == read(out, call.path)
        IN IF ~IsArray(node) THEN SameDocument(out, doc)
           ELSE /\ IsArray(res)
                /\ Len(res.c) = Len(node.c) + 1
                /\ SubSeq(res.c, 1, Len(node.c)) = node.c
                /\ res.c[Len(res.c)].v = call.value

\* ------------------------------------------------ claims on the pointer codec

\* Every prefix of the path, the path included, resolves to an existing node,
\* and every segment meets the container kind it expects.
WellKinded(d, path) ==
    /\ Addresses(d, path)
    /\ \A i \in 0..(Len(path) - 1) :
          LET node == read(d, SubSeq(path, 1, i))
          IN IF path[i + 1].num THEN IsArray(node) ELSE isPlainObject(node)

\* C9: decode(encode(P), D) = P for every path P each of whose prefixes
\* resolves to an existing node of the expected container kind.
C9_PointerRoundTrip ==
    (call.op = "decode" /\ WellKinded(doc, call.path))
        => decoded = [ok |-> TRUE, path |-> call.path]

\* C9 witness: a two-segment path with an escaped key and an index came back.
C9_Witness ==
    /\ call.op = "decode"
    /\ WellKinded(doc, call.path)
    /\ Len(call.path) = 2
    /\ \E i \in 1..2 : call.path[i].num
    /\ \E i \in 1..2 : \E j \in 1..Len(call.path[i].s) : call.path[i].s[j] \in {"~", "/"}
    /\ decoded.ok
    /\ decoded.path = call.path

\* C16: jsonPointerToPath(pointer, root) is null exactly when the pointer is
\* non-empty and does not start with '/', and [] for the empty pointer;
\* otherwise there is one segment per un-escaped token, an Index if and only
\* if the node of root reached by the segments before it is a list and the
\* token is a decimal integer without leading zeros, a Key in every other
\* case, whether or not the nodes exist.
C16_DecodeKindsFollowContainer ==
    call.op \in {"decode", "decodeRaw"} =>
        /\ decoded.ok <=> (pointer = <<>> \/ pointer[1] = "/")
        /\ pointer = <<>> => decoded.path = <<>>
        /\ (pointer # <<>> /\ pointer[1] = "/") =>
               LET split == SplitSlash(pointer)
                   tokens == [k \in 1..(Len(split) - 1) |->
                                 decodeJsonPointerToken(split[k + 1])]
               IN /\ Len(decoded.path) = Len(tokens)
                  /\ \A k \in 1..Len(tokens) :
                        LET node == read(doc, SubSeq(decoded.path, 1, k - 1))
                            seg == decoded.path[k]
                        IN /\ seg.num <=> (IsArray(node) /\ IsIndexToken(tokens[k]))
                           /\ seg.num => NatToDigits(seg.i) = tokens[k]
                           /\ ~seg.num => seg.s = tokens[k]

\* C16 witness: "/1/0" against [[1,2],{"0":"x","01":1,"":2}] is the index 1
\* followed by the key "0": the same kind of token, an index against the
\* list and a key against the mapping.
C16_Witness ==
    /\ call.op \in {"decode", "decodeRaw"}
    /\ doc = PtrDocList
    /\ pointer = <<"/", "1", "/", "0">>
    /\ decoded.ok
    /\ decoded.path = <<Index(1), Key(<<"0">>)>>

\* ------------------------------------------- claims on the completion context

\* The prefix the analyzer looks at: the expression up to the clamped cursor.
PrefixAt(expression, pos) ==
    SubSeq(expression, 1,
           IF pos < 0 THEN 0 ELSE IF pos > Len(expression) THEN Len(expression) ELSE pos)

\* Reading the prefix left to right up to (not including) position pos
\* (1-based): is pos inside a quoted string or inside an open bracket?
\* quote is the open quote character ("" for none), depth the number of
\* '[' not yet closed.
RECURSIVE insideAt(_, _, _, _, _)
insideAt(prefix, pos, i, quote, depth) ==
    IF i >= pos THEN quote # "" \/ depth > 0
    ELSE LET ch == prefix[i]
             prev == IF i > 1 THEN prefix[i - 1] ELSE ""
         IN IF quote # ""
            THEN insideAt(prefix, pos, i + 1,
                          IF ch = quote /\ prev # "\\" THEN "" ELSE quote, depth)
            ELSE IF IsQuote(ch) /\ prev # "\\" THEN insideAt(prefix, pos, i + 1, ch, depth)
            ELSE IF ch = "[" THEN insideAt(prefix, pos, i + 1, "", depth + 1)
            ELSE IF ch = "]"
            THEN insideAt(prefix, pos, i + 1, "", IF depth > 0 THEN depth - 1 ELSE 0)
            ELSE insideAt(prefix, pos, i + 1, "", depth)

InsideQuoteOrBracket(prefix, pos) == insideAt(prefix, pos, 1, "", 0)

\* C2: the context is None whenever the most recent unclosed '[' before the
\* cursor opens a filter or script segment ("?(" or "("), whatever follows it.
C2_FilterSegmentIsNone ==
    call.op = "analyze" =>
        LET prefix == PrefixAt(expr, cursor)
            lastBracket == bracketScan(prefix, 1, -1, "")
            afterTrim == trimStart(SubSeq(prefix, lastBracket + 2, Len(prefix)))
        IN (/\ startsWith(prefix, <<"$">>)
            /\ lastBracket >= 0
            /\ (startsWith(afterTrim, <<"?", "(">>) \/ startsWith(afterTrim, <<"(">>)))
               => ctx.kind = "none"

\* C10: the dot taken as the top-level dot lies outside every quoted string
\* and every bracket segment of the prefix, a quote or '[' that is opened
\* and not yet closed before the cursor included.
C10_ChosenDotIsTopLevel ==
    (call.op = "analyze" /\ ctx.kind \in {"dot", "descendant"}) =>
        LET prefix == PrefixAt(expr, cursor)
            chosen == IF ctx.kind = "dot" THEN ctx.start + 1 ELSE ctx.start
        IN /\ prefix[chosen] = "."
           /\ ~InsideQuoteOrBracket(prefix, chosen)

\* Reading the prefix left to right from position i (1-based): the 0-based
\* positions of the '[' outside quotes that no later ']' outside quotes has
\* matched, oldest first; a ']' matches the most recent open '['.
RECURSIVE openBrackets(_, _, _, _)
openBrackets(prefix, i, quote, stack) ==
    IF i > Len(prefix) THEN stack
    ELSE LET ch == prefix[i]
             prev == IF i > 1 THEN prefix[i - 1] ELSE ""
         IN IF quote # ""
            THEN openBrackets(prefix, i + 1,
                              IF ch = quote /\ prev # "\\" THEN "" ELSE quote, stack)
            ELSE IF IsQuote(ch) /\ prev # "\\" THEN openBrackets(prefix, i + 1, ch, stack)
            ELSE IF ch = "[" THEN openBrackets(prefix, i + 1, "", Append(stack, i - 1))
            ELSE IF ch = "]" /\ stack # <<>>
            THEN openBrackets(prefix, i + 1, "", SubSeq(stack, 1, Len(stack) - 1))
            ELSE openBrackets(prefix, i + 1, "", stack)

UnmatchedBrackets(prefix) == openBrackets(prefix, 1, "", <<>>)

\* C11: with i the index of the last top-level dot the backward scan finds in
\* a prefix that starts with "$": a dot at i-1 gives Descendant with base =
\* the prefix up to and including both dots, otherwise DotSegment with base =
\* the prefix before the dot; partial is the text after the dot in both
\* cases. A prefix that does not start with "$", or has no such dot and no
\* unmatched '[', is Root.
C11_DotClassification ==
    call.op = "analyze" =>
        LET prefix == PrefixAt(expr, cursor)
            i == findLastTopLevelDot(prefix)
            rooted == startsWith(prefix, <<"$">>)
        IN /\ ~rooted => ctx.kind = "root"
           /\ (rooted /\ i >= 1 /\ prefix[i] = ".") =>
                  /\ ctx.kind = "descendant"
                  /\ Len(ctx.base) = i + 1
                  /\ ctx.base[i] = "." /\ ctx.base[i + 1] = "."
                  /\ ctx.base \o ctx.partial = prefix
           /\ (rooted /\ i >= 1 /\ prefix[i] # ".") =>
                  /\ ctx.kind = "dot"
                  /\ Len(ctx.base) = i
                  /\ ctx.base \o <<".">> \o ctx.partial = prefix
           /\ (rooted /\ i < 1 /\ UnmatchedBrackets(prefix) = <<>>) => ctx.kind = "root"

\* "$..na" analyzed with the cursor at its end: a descendant context with a
\* partial text.
C11_Witness ==
    /\ call.op = "analyze"
    /\ expr = <<"$", ".", ".", "n", "a">>
    /\ cursor = 5
    /\ ctx.kind = "descendant"
    /\ ctx.base = <<"$", ".", ".">>
    /\ ctx.partial = <<"n", "a">>

\* C12: when the backward scan finds no top-level dot and the prefix has a
\* '[' that no ']' has matched, the context is BracketString (the text after
\* the most recent such '[' starts with a quote) or BracketIndex (otherwise)
\* with base = the text before that bracket, and never Root, also when a
\* nested bracket pair was opened and closed after it. A bracket that opens a
\* filter or script segment is left to C2.
C12_UnmatchedBracketIsBracketContext ==
    call.op = "analyze" =>
        LET prefix == PrefixAt(expr, cursor)
            open == UnmatchedBrackets(prefix)
            bracket == open[Len(open)]
            after == SubSeq(prefix, bracket + 2, Len(prefix))
            afterTrim == trimStart(after)
        IN (/\ startsWith(prefix, <<"$">>)
            /\ findLastTopLevelDot(prefix) < 1
            /\ open # <<>>
            /\ ~(startsWith(afterTrim, <<"?", "(">>) \/ startsWith(afterTrim, <<"(">>)))
               => /\ ctx.kind = (IF after # <<>> /\ IsQuote(after[1])
                                 THEN "bracket-string" ELSE "bracket-index")
                  /\ ctx.base = SubSeq(prefix, 1, bracket)

\* ------------------------------------------------ claims on the application

\* The handlers that mutate the parsed document.
MutationEvents == {"handleEditValue", "handleEditAtPointer", "handleAddToObject",
                   "handleAddToArray", "handleDeleteAtPath", "handleRenameKey"}

\* C4: an edit given by a reverse pointer and a new value leaves the parsed
\* document and the input text exactly as they were whenever the pointer is
\* malformed or the path it decodes to does not address an existing node of
\* the current document.
C4_StalePointerEditIsDropped ==
    [][(/\ steps' = steps + 1
        /\ event'.name = "handleEditAtPointer"
        /\ LET path == jsonPointerToPath(event'.pointer, parsed)
           IN ~path.ok \/ read(parsed, path.path) = Undef)
       => (parsed' = parsed /\ input' = input)]_vars

\* The parsed value is the document of the text: what the debounced parse
\* makes of the text.
Corresponds(text, value) ==
    LET decodedValue == decodeNestedJson(trim(text), 1)
    IN decodedValue.ok /\ Strip(decodedValue.v) = Strip(value)

\* C5: every mutation is applied to the document that corresponds to the
\* current input text: no edit that rewrites the input text is computed from
\* a parsed value that is not the document of that text.
C5_EditsApplyToCurrentInput ==
    [][(/\ steps' = steps + 1
        /\ event'.name \in MutationEvents
        /\ input' # input)
       => Corresponds(input, parsed)]_vars

\* The steps in which the cell editor's save button is pressed.
CellCommitEvents == {"commitCellEditor", "invalidNumber", "handleEditAtPointer"}

IsNumberText(text) == text # <<>> /\ \A i \in 1..Len(text) : IsDigit(text[i])

\* C18: a cell whose original value is a number is committed (outside the
\* read-only preview): with a text that is not a finite number no edit is
\* emitted, the document and the input stay as they are, the editor stays
\* open with its text and its error is set; with a text that is a number
\* the edit stores that number.
C18_NumberCellRejectsOrStoresNumber ==
    [][(/\ steps' = steps + 1
        /\ event'.name \in CellCommitEvents
        /\ cellEditor.originalValue.t = "num"
        /\ ~isReadonlyPreview)
       => LET trimmed == trim(cellEditor.text)
          IN IF IsNumberText(trimmed)
             THEN /\ event'.name = "handleEditAtPointer"
                  /\ event'.value = Num(NatToDigits(DigitsToNat(trimmed)))
             ELSE /\ event'.name = "invalidNumber"
                  /\ parsed' = parsed /\ input' = input
                  /\ cellEditor'.open
                  /\ cellEditor'.text = cellEditor.text
                  /\ cellEditor'.error]_vars

\* C19: right after every accepted mutation (a step of an edit handler that
\* changes the parsed document or the input) the input is the 2-space
\* serialization of the new parsed document.
C19_WriteBackIsCanonicalText ==
    [][(/\ steps' = steps + 1
        /\ event'.name \in MutationEvents
        /\ (parsed' # parsed \/ input' # input))
       => input' = stringify(parsed')]_vars

\* C19 witness: one edit was accepted; the input it replaced is on the undo
\* stack and the input is the serialization of the new document, not yet
\* parsed again.
C19_Witness ==
    /\ event.name \in MutationEvents
    /\ parsed # Null
    /\ timer
    /\ Len(undoStack) = 1
    /\ input # undoStack[1]
    /\ input = stringify(parsed)

\* The requests for a change of the document: the edit handlers, and the
\* save button of a cell editor that has no handler to call.
EditRequests == MutationEvents \cup {"commitCellEditor"}

\* C20: while a parse error is present no edit, rename, add, delete or
\* pointer-edit request changes the parsed document, the input or the undo
\* and redo stacks.
C20_ReadonlyPreviewBlocksEdits ==
    [][(/\ error
        /\ steps' = steps + 1
        /\ event'.name \in EditRequests)
       => UNCHANGED <<parsed, input, undoStack, redoStack>>]_vars

\* C20 witness: the save button of a cell editor was pressed in the
\* read-only preview of the last valid document; the editor is still open.
C20_Witness ==
    /\ error
    /\ lastValid # Null
    /\ parsed = Null
    /\ event.name = "commitCellEditor"
    /\ cellEditor.open

\* ------------------------------------------------ claims on the sample collector

\* the list elements and mapping values of a node, in order
Children(x) ==
    IF x.t \in {"arr", "obj"} THEN [i \in 1..Len(x.c) |-> x.c[i].v] ELSE <<>>

RECURSIVE ChildrenOfAll(_)
ChildrenOfAll(level) ==
    IF level = <<>> THEN <<>>
    ELSE Children(Head(level)) \o ChildrenOfAll(Tail(level))

\* the nodes below a level of the tree, level by level
RECURSIVE BreadthFirst(_)
BreadthFirst(level) ==
    IF level = <<>> THEN <<>>
    ELSE level \o BreadthFirst(ChildrenOfAll(level))

\* the keys of the mappings among the nodes
KeysOfMappings(nodes) ==
    UNION {{nodes[i].c[j].k : j \in 1..Len(nodes[i].c)} :
           i \in {n \in 1..Len(nodes) : nodes[n].t = "obj"}}

\* the value under key k in the first of the nodes that is a mapping with k
FirstValueUnder(nodes, k) ==
    LET with == SelectSeq(nodes, LAMBDA n : n.t = "obj" /\ HasOwn(n, k))
    IN ObjGet(with[1], k)

StrictlySorted(keys) ==
    \A i \in 1..(Len(keys) - 1) : localeCompare(keys[i], keys[i + 1]) < 0

CollectorBounded ==
    /\ seen <= maxNodes
    /\ Len(visited) = seen
    /\ visited = SubSeq(BreadthFirst(<<doc>>), 1, seen)
    /\ out # Undef =>
          /\ {out.keys[i] : i \in 1..Len(out.keys)} = KeysOfMappings(visited)
          /\ \A i, j \in 1..Len(out.keys) : out.keys[i] = out.keys[j] => i = j
          /\ call.op = "collectDescendantKeys" => StrictlySorted(out.keys)
          /\ call.op = "collectDescendantKeySamples" =>
                \A i \in 1..Len(out.samples) :
                    out.samples[i].sample
                        = toSample(FirstValueUnder(visited, out.samples[i].k))

\* C21: the sample collector always returns; it dequeues at most maxNodes
\* nodes and those are the first nodes of the document in breadth-first
\* order; the keys it returns are exactly the keys of the mappings it
\* dequeued, each once, sorted in the list collectDescendantKeys returns; the
\* sample of a key is made of the value under the first occurrence of the key
\* in that order.
C21_CollectorBoundedBreadthFirst == [](CollectorBounded) /\ <>(out # Undef)

\* The budget ends the traversal of {"a":{"x":{"k":1}},"b":{"k":2}} after
\* three nodes with the queue not empty; the sample of k is 2, its first
\* occurrence in breadth-first order (a depth-first walk meets 1 first).
C21_Witness ==
    /\ call.op = "collectDescendantKeySamples"
    /\ doc = CollectDocNested
    /\ maxNodes = 3 /\ seen = 3 /\ queue # <<>>
    /\ out # Undef
    /\ out.keys = <<<<"a">>, <<"b">>, <<"x">>, <<"k">>>>
    /\ GetSample(out.samples, <<"k">>).full = <<"2">>


\* ------------------------------------------- claims on the suggestion list

\* the events that compute the list anew
OpenOps == {"onChange", "onFocus", "ArrowDown", "ArrowUp"}

\* the list the Root context gives for the document: the root marker, the
\* wildcard shorthands, the top-level keys in sorted order
RootList == makeRoot(expr, doc).items

\* one of the contexts whose base is given to the evaluator
EvaluatedContext ==
    getCompletionContext(expr, cursor).kind \in {"dot", "bracket-string", "bracket-index"}

\* the evaluator rejected the base while the list was computed
BaseRejected == call.op \in OpenOps /\ call.asked /\ ~call.evaluated.ok

\* C22: in a dot, bracket-string or bracket-index context, when the evaluator
\* rejects the base, the list computed is exactly the Root list, it is shown,
\* nothing is raised or recorded as a result, and the step leaves the document
\* alone and the expression as the event gave it (only typing changes it).
C22_RejectedBaseFallsBackToRoot ==
    [][(call'.op \in OpenOps /\ call'.asked /\ ~call'.evaluated.ok)
         => /\ suggestions' = makeRoot(expr', doc').items
            /\ suggestOpenFor' /\ activeSuggest' = 0
            /\ doc' = doc /\ out' = out
            /\ (call'.op # "onChange" => expr' = expr)]_vars

C22_Witness ==
    /\ BaseRejected /\ EvaluatedContext
    /\ call.op = "onFocus"
    /\ expr = <<"$", "[", "]", ".">>
    /\ Len(suggestions) = 13
    /\ suggestions[1].value = <<"$">>
    /\ suggestions[5].value = <<"$", ".", "a">>
    /\ suggestions[13].value = <<"$", "[", "'", "i", " ", "j", "'", "]">>


\* the suggestions the list shows
Offered == Take(suggestions, VisibleLimit)

\* C23: whenever the list is open, at most 12 suggestions are offered and
\* the suggestion Enter or Tab would accept is one of them.
C23_ActiveSuggestionIsOffered ==
    ListOpen => /\ Len(Offered) <= VisibleLimit
                /\ activeSuggest < Len(Offered)

\* the range the analyzer gives for the text and the caret: for every context
\* the range of the context, which for Root is the text before the caret
AnalyzerRange(expression, pos) ==
    LET c == getCompletionContext(expression, pos)
    IN Replace(c.start, c.end)

\* C24: an accepted suggestion replaces, in the current text, the range the
\* analyzer gives for the current text and caret; the text after the caret of
\* a Root context is kept.
C24_AcceptSplicesAnalyzerRange ==
    [][call'.op = "applySuggestion"
         => \E range \in {AnalyzerRange(expr, cursor)} :
               expr' = SubSeq(expr, 1, range.start) \o call'.item.value
                          \o SubSeq(expr, range.end + 1, Len(expr))]_vars


\* --------------------------------------------------- claims on the decoder

NoDuplicate(records) ==
    \A i, j \in 1..Len(records) : records[i] = records[j] => i = j

\* C26 as stated: after addRecord the stored history holds at most 100
\* records, no input twice, and the input just added first.
C26_StoredHistoryHasAddedFirst ==
    call.op = "addRecord"
        => /\ Len(storage) <= MAX_RECORDS
           /\ NoDuplicate(storage)
           /\ storage # <<>> /\ storage[1] = call.input

\* C26 amended: the stored history always holds at most 100 records and no
\* input twice; the list addRecord returns has the added input first, once,
\* followed by the other stored inputs in their order; the stored history is
\* that list when the storage accepted the write and is left as it was when
\* it refused.
C26_HistoryBoundedDistinctRecentFirst ==
    /\ Len(storage) <= MAX_RECORDS /\ NoDuplicate(storage)
    /\ call.op = "addRecord"
         => /\ Len(history) <= MAX_RECORDS /\ NoDuplicate(history)
            /\ history[1] = call.input
            /\ Tail(history)
                 = SubSeq(SelectSeq(call.before, LAMBDA r : r # call.input), 1, Len(history) - 1)
            /\ storage = IF call.saved THEN history ELSE call.before

\* the hundredth stored input added again: it moves to the front
C26_Witness ==
    /\ call.op = "addRecord" /\ call.saved
    /\ call.before = RecordsUpTo(MAX_RECORDS)
    /\ call.input = <<"1", "0", "0">>
    /\ Len(storage) = MAX_RECORDS
    /\ storage[1] = <<"1", "0", "0">> /\ storage[2] = <<"1">>
    /\ storage[MAX_RECORDS] = <<"9", "9">>


\* ------------------------------------- claims on sequences of edits

\* a JSON tree: no undefined member, no undefined or empty slot, at any depth
RECURSIVE WellFormedTree(_)
WellFormedTree(x) ==
    /\ x.t # "undef"
    /\ \A i \in 1..Len(x.c) : WellFormedTree(x.c[i].v)

\* no list of the document is longer in the result, other than inside the
\* value a write put at its path
NoListGrown ==
    \A p \in Paths :
        (/\ IsArray(read(doc, p)) /\ IsArray(read(out, p))
         /\ ~(call.op = "update" /\ startsWith(p, call.path)))
            => Len(read(out, p).c) <= Len(read(doc, p).c)

\* C27: the result of every call on a well-formed document with JSON
\* arguments is a well-formed JSON tree, and no list has grown unless the
\* call is addToArrayAtPath.
C27_EditsKeepTreeWellFormed ==
    (call.op # "none" /\ WellFormedTree(doc))
        => /\ WellFormedTree(out)
           /\ call.op # "addToArray" => NoListGrown


\* the edit requests with a check for a result that is the document itself
CheckedEdits == {"handleAddToObject", "handleAddToArray", "handleDeleteAtPath",
                 "handleRenameKey"}

\* C28: an insert, append, delete or rename request that leaves the document
\* as it is pushes no snapshot and does not clear the redo stack.
C28_NoOpEditKeepsStacks ==
    [][(/\ steps' = steps + 1 /\ event'.name \in CheckedEdits
        /\ parsed' = parsed /\ input' = input)
         => (undoStack' = undoStack /\ redoStack' = redoStack)]_vars


\* C29: a step that changes the input text and is neither an undo nor a
\* redo leaves the redo stack empty, and neither stack ever holds more than
\* 100 entries.
C29_InputChangeClearsRedo ==
    [][/\ (input' # input /\ event'.name \notin {"undo", "redo"}) => redoStack' = <<>>
       /\ Len(undoStack') <= UndoLimit /\ Len(redoStack') <= UndoLimit]_vars


\* C30: the parse that the timer runs on the text an edit regenerated gives
\* a document structurally equal to the document of the edit; a string leaf
\* edited to a text beginning with a brace, a bracket or a quote is still
\* the string of that text.
C30_EditSurvivesReparse ==
    [][(/\ timer /\ ~timer' /\ steps' = steps
        /\ event.name \in EditRequests
        /\ parsed # Null /\ ~error /\ input = stringify(parsed))
         => (~error' /\ Strip(parsed') = Strip(parsed))]_vars

====
